---- MODULE Spec2Model ----
(***************************************************************************)
(* Rotary positional embeddings of vllm/model_executor/layers/             *)
(* rotary_embedding.py: the get_rope registry (_ROPE_DICT), the cos/sin    *)
(* tables each variant builds, the forward (apply) methods, and the        *)
(* multimodal position resolvers of MRotaryEmbedding.                      *)
(*                                                                         *)
(* Numbers: a Python float is modelled as an exact rational <<n, d>>.      *)
(* Angles are counted in quarter turns, so that cos and sin take the       *)
(* values 1, 0, -1 and a rotation is exact integer arithmetic.             *)
(***************************************************************************)
EXTENDS Integers, Sequences, FiniteSets, TLC

VARIABLES
    registry,   \* _ROPE_DICT: key -> object id
    objs,       \* the heap: object id -> constructed variant
    thr,        \* per thread: the get_rope call it is in
    ncalls,     \* number of get_rope calls started
    returned,   \* history: <<args, object id>> of every call that returned
    built,      \* history: <<args, object id>> of every construction
    last,       \* history: the call that completed most recently
    app,        \* the last forward (apply) call: its inputs and its outcome
    res,        \* the last resolver call: its inputs and its outcome
    dec,        \* a request being decoded: its prompt and its latest positions
    cache,      \* the cos_sin_cache buffer of one shared instance, and its callers
    fcall       \* the last call of a static helper: its inputs and its result

vars == <<registry, objs, thr, ncalls, returned, built, last, app, res, dec, cache, fcall>>

\* ------------------------------------------------------------------ bounds

MaxCalls == 2
NumThreads == 2
MaxTokens == 2
\* tokens of a stream handed to a multimodal position resolver
MaxStream == 3
\* text tokens before and after the media of a well-formed prompt
MaxText == 2
\* decode steps after a prompt
MaxDecode == 3
\* placement changes of the cache that are counted
MaxMoves == 3
\* the largest audio_len handed to omni_get_updates_use_audio_in_video
MaxAudioLen == 5
\* the largest M, N and K handed to _valid_deep_gemm_shape
MaxDim == 5
\* the columns of the array handed to get_next_input_positions_tensor
MaxCols == 3

\* ------------------------------------------------------------ Python values

PyStr(x) == [t |-> "str", s |-> x, v |-> <<>>]
PyInt(n) == [t |-> "int", s |-> "", v |-> <<n, 1>>]
PyFloat(n, d) == [t |-> "float", s |-> "", v |-> <<n, d>>]
PyList(q) == [t |-> "list", s |-> "", v |-> q]
PyTuple(q) == [t |-> "tuple", s |-> "", v |-> q]
NoneVal == [t |-> "none", s |-> "", v |-> <<>>]

IsNum(x) == x.t \in {"int", "float"}

\* dict: a sequence of <<key, value>> items in insertion order, keys distinct
Has(d, k) == \E i \in 1..Len(d) : d[i][1] = k
Get(d, k) == d[CHOOSE i \in 1..Len(d) : d[i][1] = k][2]
Items(d) == {d[i] : i \in 1..Len(d)}

RECURSIVE SelectItems(_, _)
\* {k: v for k, v in d.items() if k in ks}
SelectItems(d, ks) ==
    IF d = <<>> THEN <<>>
    ELSE IF Head(d)[1] \in ks THEN <<Head(d)>> \o SelectItems(Tail(d), ks)
         ELSE SelectItems(Tail(d), ks)

CeilDiv(a, b) == IF a <= 0 THEN 0 ELSE ((a - 1) \div b) + 1
\* a faulty variant of ArangeLen: the end truncated, not rounded up
ArangeLenTruncated(m, x) == (m * x[1]) \div x[2]
\* len(torch.arange(m * x)) for an int m and a float x = n/d
ArangeLen(m, x) == CeilDiv(m * x[1], x[2])

\* ------------------------------------------------------------- get_rope key

DefaultDtype == "float32"

\* tuple(v) if isinstance(v, list) else v; as a dict key an int and the float
\* of the same value are one key (Python equality and hash)
Tupled(x) ==
    IF x.t = "list" THEN [x EXCEPT !.t = "tuple"]
    ELSE IF IsNum(x) THEN [x EXCEPT !.t = "num"]
    ELSE x

RECURSIVE TupleItems(_)
TupleItems(d) ==
    IF d = <<>> THEN <<>>
    ELSE <<(<<Head(d)[1], Tupled(Head(d)[2])>>)>> \o TupleItems(Tail(d))

RECURSIVE DropKey(_, _)
DropKey(d, k) ==
    IF d = <<>> THEN <<>>
    ELSE IF Head(d)[1] = k THEN DropKey(Tail(d), k)
         ELSE <<Head(d)>> \o DropKey(Tail(d), k)

\* rotary_dim = int(rotary_dim * partial_rotary_factor) when the factor < 1
EffRotaryDim(a) ==
    IF a.prf[1] < a.prf[2] THEN (a.rotary_dim * a.prf[1]) \div a.prf[2]
    ELSE a.rotary_dim

RopeScalingArgs(a) ==
    IF a.hasScaling THEN <<"items", TupleItems(a.rope_scaling)>> ELSE <<"None", <<>>>>

DualChunkArgs(a) ==
    IF a.hasDual THEN <<"items", TupleItems(DropKey(a.dual, "sparse_attention_config"))>>
    ELSE <<"None", <<>>>>

KeyOf(a) ==
    [head_size |-> a.head_size,
     rotary_dim |-> EffRotaryDim(a),
     max_position |-> a.max_position,
     base |-> a.base,
     is_neox_style |-> a.is_neox_style,
     rope_scaling_args |-> RopeScalingArgs(a),
     dual_chunk_attention_args |-> DualChunkArgs(a),
     dtype |-> IF a.dtype = "None" THEN DefaultDtype ELSE a.dtype]

\* ------------------------------------------------------------ cos/sin rows

\* RotaryEmbedding._compute_cos_sin_cache: t = arange(max_position_embeddings)
RotaryRows(max_pos) == max_pos

RECURSIVE LinearRowsFrom(_, _)
\* LinearScalingRotaryEmbedding: one sub-table of arange(max_pos * f) rows per
\* scaling factor, concatenated
LinearRowsFrom(max_pos, fs) ==
    IF fs = <<>> THEN 0
    ELSE ArangeLen(max_pos, Head(fs)) + LinearRowsFrom(max_pos, Tail(fs))

\* a faulty variant of LinearOffsets: every sub-table taken to have max_pos rows
LinearOffsetsUnscaled(max_pos, fs) == [i \in 1..Len(fs) |-> (i - 1) * max_pos]
\* lines 369-388: offsets[i] = offsets[i-1] + cache_list[i-1].shape[0], from 0
LinearOffsets(max_pos, fs) ==
    [i \in 1..Len(fs) |-> LinearRowsFrom(max_pos, SubSeq(fs, 1, i - 1))]

\* lines 389-392: {float(scaling_factor): offsets[i]}; of two equal factors
\* the later one's offset stays
ScalingFactorToOffset(o, f) ==
    LET fs == o.scaling_factors
        hits == {i \in 1..Len(fs) : fs[i][1] * f[2] = f[1] * fs[i][2]}
    IN LinearOffsets(o.max_position_embeddings, fs)[CHOOSE i \in hits : \A j \in hits : j <= i]

\* lines 389-392: the keys of the dictionary are the configured factors
ScalingFactorToOffsetKeys(o) == {o.scaling_factors[i] : i \in 1..Len(o.scaling_factors)}

\* torch.cat(cache_list, dim=0): row r of the table lies in the sub-table its
\* predecessors' row counts put it in, and holds cos and sin of t * inv_freq
\* for t = arange(max_len) / scaling_factor; the row is given by t = <<n, d>>
LinearCacheT(o, r) ==
    LET fs == o.scaling_factors
        before(i) == LinearRowsFrom(o.max_position_embeddings, SubSeq(fs, 1, i - 1))
        i == CHOOSE k \in 1..Len(fs) : before(k) <= r /\ r < before(k + 1)
    IN <<(r - before(i)) * fs[i][2], fs[i][1]>>

\* DynamicNTKScalingRotaryEmbedding: t = arange(max_position_embeddings * scaling_factor)
DynamicRows(max_pos, f) == ArangeLen(max_pos, f)

\* YaRNScalingRotaryEmbedding and DeepseekScalingRotaryEmbedding:
\* t = arange(max_position_embeddings * scaling_factor), where get_rope passes
\* original_max_position_embeddings as max_position_embeddings
YarnRows(max_pos, f) == ArangeLen(max_pos, f)

\* Phi3LongRoPEScaledRotaryEmbedding: cat([short_cache, long_cache])
LongRopeRows(orig_max, max_pos) == orig_max + max_pos

\* MRotaryEmbedding: cache_max_position_num = max_position_embeddings * 4
MRopeCacheMaxPositionNum(max_pos) == max_pos * 4

\* Llama4VisionRotaryEmbedding: one row per patch and one for the class token
Llama4Rows(num_patches) == num_patches + 1

\* --------------------------------------------------------------- variants

RECURSIVE SumSeq(_)
SumSeq(q) == IF q = <<>> THEN 0 ELSE Head(q) + SumSeq(Tail(q))

\* what every constructor stores; a field a class does not have keeps its
\* value here
Obj0(a, rd, cls) ==
    [cls |-> cls,
     head_size |-> a.head_size,
     rotary_dim |-> rd,
     max_position_embeddings |-> a.max_position,
     base |-> a.base,
     is_neox_style |-> a.is_neox_style,
     dtype |-> IF a.dtype = "None" THEN DefaultDtype ELSE a.dtype,
     scaling_factor |-> <<1, 1>>,
     scaling_factors |-> <<>>,
     original_max_position_embeddings |-> 0,
     mrope_section |-> <<>>,
     chunk_size |-> 0,
     local_size |-> 0,
     short_factor |-> <<>>,
     long_factor |-> <<>>,
     rows |-> RotaryRows(a.max_position)]

Ok(o) == [err |-> "", obj |-> o]
Raise(a, e) == [err |-> e, obj |-> Obj0(a, 0, "none")]

MissingAny(d, ks) == \E k \in ks : ~Has(d, k)

\* LinearScalingRotaryEmbedding.__init__: a float becomes a one-element list;
\* anything else is iterated as it is
LinearFactors(x) ==
    IF x.t = "float" THEN <<x.v>> ELSE [i \in 1..Len(x.v) |-> <<x.v[i], 1>>]

\* a faulty variant of DynamicMissingFields: a variant is built where the code raises
DynamicDefaultsToFactorOne(a, rd) ==
    Ok(Obj0(a, rd, "DynamicNTKScalingRotaryEmbedding"))
\* lines 1918-1920: 'dynamic' with neither 'alpha' nor 'factor'
DynamicMissingFields(a, rd) == Raise(a, "ValueError")

\* a faulty variant of UnknownScalingType: the silent fallback to the unscaled variant
UnknownFallsBackToDefault(a, rd) == Ok(Obj0(a, rd, "RotaryEmbedding"))
\* lines 1964-1965: no branch for this rope_type
UnknownScalingType(a, rd) == Raise(a, "ValueError")

\* the branch of get_rope taken for a scaling descriptor d with a rope_type
BuildScaled(a, rd, d) ==
    LET ty == Get(d, "rope_type").s IN
    CASE ty = "llama3" ->
           IF MissingAny(d, {"factor", "low_freq_factor", "high_freq_factor",
                             "original_max_position_embeddings"})
           THEN Raise(a, "KeyError")
           ELSE Ok([Obj0(a, rd, "Llama3RotaryEmbedding") EXCEPT
                      !.scaling_factor = Get(d, "factor").v,
                      !.original_max_position_embeddings =
                          Get(d, "original_max_position_embeddings").v[1]])
      [] ty = "mllama4" ->
           Ok([Obj0(a, rd, "Llama4VisionRotaryEmbedding") EXCEPT
                 !.rows = Llama4Rows(a.max_position)])
      [] ty = "default" ->
           IF Has(d, "mrope_section")
           THEN IF Get(d, "mrope_section").v # <<>>
                   /\ SumSeq(Get(d, "mrope_section").v) # rd \div 2
                THEN Raise(a, "AssertionError")
                ELSE Ok([Obj0(a, rd, "MRotaryEmbedding") EXCEPT
                           !.max_position_embeddings =
                               MRopeCacheMaxPositionNum(a.max_position),
                           !.mrope_section = Get(d, "mrope_section").v,
                           !.rows = RotaryRows(MRopeCacheMaxPositionNum(a.max_position))])
           ELSE Ok(Obj0(a, rd, "RotaryEmbedding"))
      [] ty = "linear" ->
           IF ~Has(d, "factor") THEN Raise(a, "KeyError")
           ELSE IF Get(d, "factor").t \notin {"float", "list", "tuple"}
                THEN Raise(a, "TypeError")
                ELSE Ok([Obj0(a, rd, "LinearScalingRotaryEmbedding") EXCEPT
                           !.scaling_factors = LinearFactors(Get(d, "factor")),
                           !.rows = LinearRowsFrom(a.max_position,
                                                   LinearFactors(Get(d, "factor")))])
      [] ty = "ntk" ->
           IF ~Has(d, "factor") THEN Raise(a, "KeyError")
           ELSE Ok([Obj0(a, rd, "NTKScalingRotaryEmbedding") EXCEPT
                      !.scaling_factor = Get(d, "factor").v])
      [] ty = "dynamic" ->
           IF Has(d, "alpha")
           THEN Ok([Obj0(a, rd, "DynamicNTKAlphaRotaryEmbedding") EXCEPT
                      !.scaling_factor = Get(d, "alpha").v])
           ELSE IF Has(d, "factor")
                THEN Ok([Obj0(a, rd, "DynamicNTKScalingRotaryEmbedding") EXCEPT
                           !.scaling_factor = Get(d, "factor").v,
                           !.rows = DynamicRows(a.max_position, Get(d, "factor").v)])
                ELSE DynamicMissingFields(a, rd)
      [] ty \in {"yarn", "deepseek_yarn"} ->
           IF MissingAny(d, {"factor", "original_max_position_embeddings"})
           THEN Raise(a, "KeyError")
           ELSE LET om == Get(d, "original_max_position_embeddings").v[1] IN
                Ok([Obj0(a, rd, IF ty = "yarn" THEN "YaRNScalingRotaryEmbedding"
                                ELSE "DeepseekScalingRotaryEmbedding") EXCEPT
                      !.max_position_embeddings = om,
                      !.scaling_factor = Get(d, "factor").v,
                      !.rows = YarnRows(om, Get(d, "factor").v)])
      [] ty = "longrope" ->
           IF MissingAny(d, {"short_factor", "long_factor",
                             "original_max_position_embeddings"})
           THEN Raise(a, "KeyError")
           ELSE IF a.is_neox_style = FALSE THEN Raise(a, "ValueError")
           ELSE LET om == Get(d, "original_max_position_embeddings").v[1] IN
                Ok([Obj0(a, rd, "Phi3LongRoPEScaledRotaryEmbedding") EXCEPT
                      !.original_max_position_embeddings = om,
                      !.short_factor = Get(d, "short_factor").v,
                      !.long_factor = Get(d, "long_factor").v,
                      !.rows = LongRopeRows(om, a.max_position)])
      [] OTHER -> UnknownScalingType(a, rd)

\* get_rope after a miss, lines 1841-1965: dual-chunk first, then no scaling,
\* then the scaling type
Build(a, rd) ==
    IF a.hasDual
    THEN LET kw == SelectItems(a.dual, {"chunk_size", "local_size"}) IN
         IF MissingAny(kw, {"chunk_size", "local_size"}) THEN Raise(a, "TypeError")
         ELSE Ok([Obj0(a, rd, "DualChunkRotaryEmbedding") EXCEPT
                    !.chunk_size = Get(kw, "chunk_size").v[1],
                    !.local_size = Get(kw, "local_size").v[1]])
    ELSE IF ~a.hasScaling \/ a.rope_scaling = <<>>
    THEN Ok(Obj0(a, rd, "RotaryEmbedding"))
    ELSE IF ~Has(a.rope_scaling, "rope_type") THEN Raise(a, "KeyError")
    ELSE BuildScaled(a, rd, a.rope_scaling)

\* ------------------------------------------------------- cos/sin tables

\* cos and sin of an angle counted in quarter turns
Cos4(x) == CASE x % 4 = 0 -> 1 [] x % 4 = 1 -> 0 [] x % 4 = 2 -> -1 [] OTHER -> 0
Sin4(x) == CASE x % 4 = 0 -> 0 [] x % 4 = 1 -> 1 [] x % 4 = 2 -> 0 [] OTHER -> -1

\* _compute_inv_freq: one frequency per pair of rotary dimensions, decreasing
\* with the pair index like base ** -(2j / rotary_dim); here in quarter turns
\* per position
InvFreq(rd) == [j \in 1..(rd \div 2) |-> (rd \div 2) - j + 1]

\* Phi3LongRoPEScaledRotaryEmbedding._compute_inv_freq: the frequencies are
\* divided by the rescale factors (here of a basis twice as fine)
Phi3InvFreq(rescale, rd) ==
    [j \in 1..(rd \div 2) |-> (2 * InvFreq(rd)[j]) \div rescale[j]]

\* cache = cat((cos, sin), dim=-1) of the outer product of t and inv_freq:
\* the row of position t
CosSinRow(t, freq) ==
    [j \in 1..Len(freq) |-> Cos4(t * freq[j])] \o [j \in 1..Len(freq) |-> Sin4(t * freq[j])]

\* cos, sin = cos_sin.chunk(2, dim=-1)
CosOf(row) == SubSeq(row, 1, Len(row) \div 2)
SinOf(row) == SubSeq(row, (Len(row) \div 2) + 1, Len(row))

\* RotaryEmbedding._compute_cos_sin_cache (and the subclasses that keep its
\* layout): row r of cos_sin_cache
RotaryCacheRow(o, r) == CosSinRow(r, InvFreq(o.rotary_dim))

\* Phi3LongRoPEScaledRotaryEmbedding: long_short_cos_sin_cache is the short
\* table (original_max_position_embeddings rows) followed by the long table
Phi3CacheRow(o, r) ==
    IF r < o.original_max_position_embeddings
    THEN CosSinRow(r, Phi3InvFreq(o.short_factor, o.rotary_dim))
    ELSE CosSinRow(r - o.original_max_position_embeddings,
                   Phi3InvFreq(o.long_factor, o.rotary_dim))

\* rationals <<n, d>> with d > 0
RECURSIVE Gcd(_, _)
Gcd(a, b) == IF b = 0 THEN a ELSE Gcd(b, a % b)
Lowest(x) == LET g == Gcd(x[1], x[2]) IN <<x[1] \div g, x[2] \div g>>
RatMul(x, y) == Lowest(<<x[1] * y[1], x[2] * y[2]>>)
RatDiv(x, y) == Lowest(<<x[1] * y[2], x[2] * y[1]>>)
RatAdd(x, y) == Lowest(<<x[1] * y[2] + y[1] * x[2], x[2] * y[2]>>)
RatEq(x, y) == x[1] * y[2] = y[1] * x[2]
RatLess(x, y) == x[1] * y[2] < y[1] * x[2]
\* math.log(x) of a rational x >= 1, here (x - 1) / x: like the logarithm it
\* is 0 at 1, positive above 1 and below x - 1
Log(x) == <<x[1] - x[2], x[1]>>

\* a faulty variant of YarnGetMscale: no magnitude correction
YarnGetMscaleOne(scale, mscale) == <<1, 1>>
\* _yarn_get_mscale, lines 547-550, and yarn_get_mscale, lines 735-738
YarnGetMscale(scale, mscale) ==
    IF scale[1] <= scale[2] THEN <<1, 1>>
    ELSE RatAdd(RatMul(RatMul(<<1, 10>>, mscale), Log(scale)), <<1, 1>>)

\* self.mscale of YaRNScalingRotaryEmbedding (lines 581-582) and of
\* DeepseekScalingRotaryEmbedding (lines 772-775), with attn_factor, mscale
\* and mscale_all_dim at their defaults 1, 1 and 0
YarnMscale(o) == RatMul(YarnGetMscale(o.scaling_factor, <<1, 1>>), <<1, 1>>)
DeepseekMscale(o) ==
    RatMul(RatDiv(YarnGetMscale(o.scaling_factor, <<1, 1>>),
                  YarnGetMscale(o.scaling_factor, <<0, 1>>)), <<1, 1>>)
\* Phi3LongRoPEScaledRotaryEmbedding.__init__, lines 650-661: the square of
\* scaling_factor, which short_mscale and long_mscale default to
Phi3MscaleSquared(o) ==
    LET scale == <<o.max_position_embeddings, o.original_max_position_embeddings>>
    IN IF scale[1] <= scale[2] THEN <<1, 1>>
       ELSE RatAdd(<<1, 1>>, RatDiv(Log(scale),
                                    Log(<<o.original_max_position_embeddings, 1>>)))
\* the square of the factor the cos and sin of a table are multiplied by
\* (lines 609-610, 805-806, 694-695); the other tables hold cos and sin as
\* they are
MscaleSquared(o) ==
    CASE o.cls = "YaRNScalingRotaryEmbedding" -> RatMul(YarnMscale(o), YarnMscale(o))
      [] o.cls = "DeepseekScalingRotaryEmbedding" ->
           RatMul(DeepseekMscale(o), DeepseekMscale(o))
      [] o.cls = "Phi3LongRoPEScaledRotaryEmbedding" -> Phi3MscaleSquared(o)
      [] OTHER -> <<1, 1>>
\* cos^2 + sin^2 of column j of row r of the table: the row holds cos and sin
\* of the angle, times the factor
EntryNormSquared(o, r, j) ==
    LET row == IF o.cls = "Phi3LongRoPEScaledRotaryEmbedding" THEN Phi3CacheRow(o, r)
               ELSE RotaryCacheRow(o, r)
    IN RatMul(<<CosOf(row)[j] * CosOf(row)[j] + SinOf(row)[j] * SinOf(row)[j], 1>>,
              MscaleSquared(o))

\* DualChunkRotaryEmbedding._compute_cos_sin_cache: the five tables
ChunkLen(o) == o.chunk_size - o.local_size
Min(x, y) == IF x <= y THEN x ELSE y
DualTableRows(o, tbl) == IF tbl = "k" THEN o.max_position_embeddings ELSE ChunkLen(o)
\* a faulty variant of DualCacheRow: the key table at the absolute position
DualCacheRowKeyAbsolute(o, tbl, r) ==
    CosSinRow(CASE tbl = "q" -> r
                [] tbl = "qc" -> Min(r + ChunkLen(o), o.chunk_size)
                [] tbl = "k" -> r
                [] tbl = "qc_no_clamp" -> r + ChunkLen(o)
                [] tbl = "q_inter" -> r + o.chunk_size,
              InvFreq(o.rotary_dim))
\* a faulty variant of DualCacheRow: the cross-chunk table counts from 0
DualCacheRowNoShift(o, tbl, r) ==
    CosSinRow(CASE tbl = "q" -> r
                [] tbl = "qc" -> Min(r, o.chunk_size)
                [] tbl = "k" -> r % ChunkLen(o)
                [] tbl = "qc_no_clamp" -> r + ChunkLen(o)
                [] tbl = "q_inter" -> r + o.chunk_size,
              InvFreq(o.rotary_dim))
DualCacheRow(o, tbl, r) ==
    CosSinRow(CASE tbl = "q" -> r
                [] tbl = "qc" -> Min(r + ChunkLen(o), o.chunk_size)
                [] tbl = "k" -> r % ChunkLen(o)
                [] tbl = "qc_no_clamp" -> r + ChunkLen(o)
                [] tbl = "q_inter" -> r + o.chunk_size,
              InvFreq(o.rotary_dim))

\* int(math.sqrt(n))
RECURSIVE IntSqrtFrom(_, _)
IntSqrtFrom(n, r) == IF (r + 1) * (r + 1) > n THEN r ELSE IntSqrtFrom(n, r + 1)
IntSqrt(n) == IntSqrtFrom(n, 0)

\* Python's floor division by a positive divisor
FloorDiv(x, y) == IF x >= 0 THEN x \div y ELSE -(((-x) + y - 1) \div y)

\* Llama4VisionRotaryEmbedding._compute_cos_sin_cache: row r holds rotary_dim
\* complex entries, the x frequencies then the y frequencies of patch r; the
\* last row is the class token (index -2), whose angles are forced to zero.
\* An entry is <<cos, sin>>.
Llama4CacheRow(o, r) ==
    LET np == o.max_position_embeddings
        img == IF r = np THEN -2 ELSE r
        n1 == IntSqrt(np)
        fx == (img % n1) + 1
        fy == FloorDiv(img, n1) + 1
        f == InvFreq(o.rotary_dim)
        ang == [j \in 1..Len(f) |-> fx * f[j]] \o [j \in 1..Len(f) |-> fy * f[j]]
    IN [m \in 1..Len(ang) |->
          IF img < 0 THEN <<Cos4(0), Sin4(0)>> ELSE <<Cos4(ang[m]), Sin4(ang[m])>>]

\* --------------------------------------------------------------- rotation

\* _apply_rotary_emb_torch: x is the rotary slice of one head
ApplyRotaryEmbTorch(x, cos, sin, neox) ==
    LET h == Len(x) \div 2
        x1 == [i \in 1..h |-> IF neox THEN x[i] ELSE x[2 * i - 1]]
        x2 == [i \in 1..h |-> IF neox THEN x[i + h] ELSE x[2 * i]]
        o1 == [i \in 1..h |-> x1[i] * cos[i] - x2[i] * sin[i]]
        o2 == [i \in 1..h |-> x2[i] * cos[i] + x1[i] * sin[i]]
    IN IF neox THEN o1 \o o2
       ELSE [i \in 1..(2 * h) |-> IF i % 2 = 1 THEN o1[(i + 1) \div 2] ELSE o2[i \div 2]]

\* _rotate_neox and _rotate_gptj
RotateNeox(x) ==
    LET h == Len(x) \div 2 IN
    [i \in 1..Len(x) |-> IF i <= h THEN -x[i + h] ELSE x[i - h]]
RotateGptj(x) ==
    [i \in 1..Len(x) |-> IF i % 2 = 1 THEN -x[i + 1] ELSE x[i - 1]]

\* x * cos + rotate_fn(x) * sin, with cos and sin repeated to the width of x:
\* cos.repeat(.., 2) for neox, cos.repeat_interleave(2) for gpt-j
RotateBySinCos(x, cos, sin, neox) ==
    LET h == Len(x) \div 2
        col(i) == IF neox THEN ((i - 1) % h) + 1 ELSE (i + 1) \div 2
        rot == IF neox THEN RotateNeox(x) ELSE RotateGptj(x)
    IN [i \in 1..Len(x) |-> x[i] * cos[col(i)] + rot[i] * sin[col(i)]]

\* query[..., :rotary_dim] and query[..., rotary_dim:]
RotSlice(x, rd) == SubSeq(x, 1, rd)
PassSlice(x, rd) == SubSeq(x, rd + 1, Len(x))

\* a faulty variant of CatPass: the pass-through slice zeroed
CatPassDropped(xrot, xpass) == xrot \o [i \in 1..Len(xpass) |-> 0]
\* torch.cat((x_rot, x_pass), dim=-1)
CatPass(xrot, xpass) == xrot \o xpass

\* one token of a [num_tokens, num_heads, head_size] tensor rotated with the
\* cos/sin row picked for it
RotateHeads(tok, row, rd, neox) ==
    [h \in 1..Len(tok) |->
        CatPass(ApplyRotaryEmbTorch(RotSlice(tok[h], rd), CosOf(row), SinOf(row), neox),
                PassSlice(tok[h], rd))]
RotateHeadsBySinCos(tok, row, rd, neox) ==
    [h \in 1..Len(tok) |->
        CatPass(RotateBySinCos(RotSlice(tok[h], rd), CosOf(row), SinOf(row), neox),
                PassSlice(tok[h], rd))]

\* ---------------------------------------------------------------- indexing

\* torch.index_select(table, 0, idx): an index outside [0, rows) raises
IndexSelectOk(rows, i) == 0 <= i /\ i < rows

\* table[idx] with an index tensor: an index in [-rows, 0) counts from the
\* end, an index outside [-rows, rows) raises
AdvancedIndexOk(rows, i) == -rows <= i /\ i < rows
AdvancedIndexRow(rows, i) == IF i < 0 THEN i + rows ELSE i

\* ----------------------------------------------------------------- forward

\* a tensor [num_tokens, num_heads, head_size] is a sequence of tokens, each a
\* sequence of heads, each a sequence of head_size numbers; None is <<>>
NoTensor == <<>>
\* an outcome: q and k hold the rotation by the angles of the rows used; the
\* rotary slices returned are those times the factor whose square is mscale2
Outcome(e, q, k, rows) == [err |-> e, q |-> q, k |-> k, rows |-> rows, mscale2 |-> <<1, 1>>]
Raised(e) == Outcome(e, NoTensor, NoTensor, <<>>)

\* positions + offsets
AddOffsets(pos, offs) == IF offs = <<>> THEN pos ELSE [i \in 1..Len(pos) |-> pos[i] + offs[i]]

\* lines 155-161 and 165-171: the tensor viewed per token and head, rotated
\* with the rows picked for the tokens
NativeRotate(o, pos, x) ==
    [i \in 1..Len(pos) |->
        RotateHeads(x[i], RotaryCacheRow(o, pos[i]), o.rotary_dim, o.is_neox_style)]

\* a faulty variant of ForwardNative: key None rejected as the overriding forwards do
ForwardNativeNeedsKey(o, positions, offsets, query, key) ==
    LET pos == AddOffsets(positions, offsets) IN
    IF key = NoTensor THEN Raised("AssertionError")
    ELSE IF \E i \in 1..Len(pos) : ~IndexSelectOk(o.rows, pos[i]) THEN Raised("IndexError")
    ELSE Outcome("", NativeRotate(o, pos, query), NativeRotate(o, pos, key), pos)
\* RotaryEmbedding.forward_native, lines 140-172
ForwardNative(o, positions, offsets, query, key) ==
    LET pos == AddOffsets(positions, offsets) IN
    IF \E i \in 1..Len(pos) : ~IndexSelectOk(o.rows, pos[i]) THEN Raised("IndexError")
    ELSE Outcome("", NativeRotate(o, pos, query),
                 IF key = NoTensor THEN NoTensor ELSE NativeRotate(o, pos, key), pos)

RECURSIVE SectionOfColumn(_, _, _)
\* cos.split(mrope_section, dim=-1): the index of the section column j is in
SectionOfColumn(sections, j, i) ==
    IF j <= Head(sections) THEN i
    ELSE SectionOfColumn(Tail(sections), j - Head(sections), i + 1)

\* a faulty variant of MRopeMixedRow: every column from the row of the time axis
MRopeMixedRowTimeOnly(o, rows3) == rows3[1]
\* lines 1012-1021: the columns of section i are taken from the row of axis i
MRopeMixedRow(o, rows3) ==
    LET h == o.rotary_dim \div 2
        ax(j) == SectionOfColumn(o.mrope_section, j, 1)
    IN [j \in 1..h |-> CosOf(rows3[ax(j)])[j]] \o [j \in 1..h |-> SinOf(rows3[ax(j)])[j]]

\* MRotaryEmbedding.forward, lines 988-1036; positions is [num_tokens] (ndim 1)
\* or [3, num_tokens] (ndim 2), here one <<t, h, w>> triple per token
MRopeForward(o, ndim, positions, query, key) ==
    IF key = NoTensor THEN Raised("AssertionError")
    ELSE IF \E i \in 1..Len(positions) : \E x \in 1..(IF ndim = 2 THEN 3 ELSE 1) :
                ~AdvancedIndexOk(o.rows, positions[i][x])
    THEN Raised("IndexError")
    ELSE IF ndim = 2 /\ o.mrope_section = <<>> THEN Raised("AssertionError")
    ELSE LET r(i, x) == AdvancedIndexRow(o.rows, positions[i][x])
             row(i) == IF ndim = 2
                       THEN MRopeMixedRow(o, [x \in 1..3 |-> RotaryCacheRow(o, r(i, x))])
                       ELSE RotaryCacheRow(o, r(i, 1))
             rot(x) == [i \in 1..Len(positions) |->
                          RotateHeads(x[i], row(i), o.rotary_dim, o.is_neox_style)]
         IN Outcome("", rot(query), rot(key),
                    [i \in 1..Len(positions) |-> r(i, 1)])

\* DeepseekScalingRotaryEmbedding.forward, lines 810-850
DeepseekForward(o, positions, offsets, query, key) ==
    IF key = NoTensor THEN Raised("AssertionError")
    ELSE LET pos == AddOffsets(positions, offsets) IN
         IF \E i \in 1..Len(pos) : ~AdvancedIndexOk(o.rows, pos[i]) THEN Raised("IndexError")
         ELSE LET r(i) == AdvancedIndexRow(o.rows, pos[i])
                  rot(x) == [i \in 1..Len(pos) |->
                               RotateHeadsBySinCos(x[i], RotaryCacheRow(o, r(i)),
                                                   o.rotary_dim, o.is_neox_style)]
              IN [Outcome("", rot(query), rot(key), [i \in 1..Len(pos) |-> r(i)])
                    EXCEPT !.mscale2 = MscaleSquared(o)]

\* Phi3LongRoPEScaledRotaryEmbedding.forward, lines 699-732
Phi3Forward(o, positions, offsets, query, key) ==
    IF key = NoTensor THEN Raised("AssertionError")
    ELSE LET k == o.original_max_position_embeddings
             long_prompt_offset == IF \E i \in 1..Len(positions) : positions[i] > k
                                   THEN k ELSE 0
             idx == AddOffsets([i \in 1..Len(positions) |->
                                   positions[i] + long_prompt_offset], offsets)
         IN IF \E i \in 1..Len(idx) : ~IndexSelectOk(o.rows, idx[i]) THEN Raised("IndexError")
            ELSE LET rot(x) == [i \in 1..Len(idx) |->
                                  RotateHeadsBySinCos(x[i], Phi3CacheRow(o, idx[i]),
                                                      o.rotary_dim, TRUE)]
                 IN [Outcome("", rot(query), rot(key), idx)
                       EXCEPT !.mscale2 = MscaleSquared(o)]

RECURSIVE Flatten(_)
\* flatten(-2): the heads of one token side by side
Flatten(tok) == IF tok = <<>> THEN <<>> ELSE Head(tok) \o Flatten(Tail(tok))

\* DualChunkRotaryEmbedding._apply_rotary_embedding, lines 1771-1788
DualApplyRotaryEmbedding(o, row, tok) ==
    Flatten(RotateHeadsBySinCos(tok, row, o.rotary_dim, o.is_neox_style))

\* DualChunkRotaryEmbedding.forward, lines 1721-1769: the key from the k table,
\* five copies of the query side by side
DualChunkForward(o, positions, offsets, query, key) ==
    IF key = NoTensor THEN Raised("AttributeError")
    ELSE LET pos == AddOffsets(positions, offsets)
             cl == ChunkLen(o)
         IN IF \E i \in 1..Len(pos) : ~AdvancedIndexOk(DualTableRows(o, "k"), pos[i])
            THEN Raised("IndexError")
            ELSE LET rk(i) == AdvancedIndexRow(DualTableRows(o, "k"), pos[i])
                     rq(i) == pos[i] % cl
                     copy(tbl, i) == DualApplyRotaryEmbedding(
                                         o, DualCacheRow(o, tbl, rq(i)), query[i])
                     inter(i) == DualApplyRotaryEmbedding(
                                     o, DualCacheRow(o, "qc", cl - 1), query[i])
                 IN Outcome("",
                            [i \in 1..Len(pos) |->
                                copy("q", i) \o copy("qc", i) \o inter(i)
                                \o copy("qc_no_clamp", i) \o copy("q_inter", i)],
                            [i \in 1..Len(pos) |->
                                DualApplyRotaryEmbedding(o, DualCacheRow(o, "k", rk(i)),
                                                         key[i])],
                            [i \in 1..Len(pos) |-> rk(i)])

\* Llama4VisionRotaryEmbedding.forward, lines 943-961: every pair (2m-1, 2m) of
\* a head is one complex number, multiplied by entry m of the cache viewed as
\* [seq_len, head_size / 2]
Llama4VisionForward(o, query, key) ==
    IF key = NoTensor THEN Raised("AssertionError")
    ELSE LET n == Len(query)
             hc == o.head_size \div 2
             entry(i, m) ==
                 LET f == (i - 1) * hc + (m - 1) IN
                 Llama4CacheRow(o, f \div o.rotary_dim)[(f % o.rotary_dim) + 1]
             mul(x, i) ==
                 [c \in 1..(2 * hc) |->
                     LET m == (c + 1) \div 2
                         e == entry(i, m)
                     IN IF c % 2 = 1 THEN x[c] * e[1] - x[c + 1] * e[2]
                        ELSE x[c - 1] * e[2] + x[c] * e[1]]
             rot(x) == [i \in 1..n |-> [h \in 1..Len(x[i]) |-> mul(x[i][h], i)]]
         IN IF o.rows * o.rotary_dim # n * hc THEN Raised("RuntimeError")
            ELSE Outcome("", rot(query), rot(key), [i \in 1..n |-> i - 1])

\* ------------------------------------------------- the calls that are made

RopeType(x) == <<"rope_type", PyStr(x)>>
OrigMax(n) == <<"original_max_position_embeddings", PyInt(n)>>

D_linear == <<RopeType("linear"), <<"factor", PyFloat(2, 1)>>>>
D_linear_rev == <<(<<"factor", PyFloat(2, 1)>>), RopeType("linear")>>
D_linear_frac == <<RopeType("linear"), <<"factor", PyFloat(3, 2)>>>>
D_linear_int == <<RopeType("linear"), <<"factor", PyInt(2)>>>>
D_linear_list == <<RopeType("linear"), <<"factor", PyList(<<1, 2>>)>>>>
D_linear_three == <<RopeType("linear"), <<"factor", PyList(<<2, 1, 3>>)>>>>
D_dynamic_factor == <<RopeType("dynamic"), <<"factor", PyFloat(3, 2)>>>>
D_dynamic_alpha == <<RopeType("dynamic"), <<"alpha", PyFloat(2, 1)>>>>
D_dynamic_bare == <<RopeType("dynamic")>>
D_yarn == <<RopeType("yarn"), <<"factor", PyFloat(3, 2)>>, OrigMax(3)>>
D_deepseek_yarn == <<RopeType("deepseek_yarn"), <<"factor", PyFloat(5, 2)>>, OrigMax(1)>>
D_longrope ==
    <<RopeType("longrope"), <<"short_factor", PyList(<<1, 1>>)>>,
      <<"long_factor", PyList(<<2, 2>>)>>, OrigMax(2)>>
D_longrope_tuples ==
    <<RopeType("longrope"), <<"short_factor", PyTuple(<<1, 1>>)>>,
      <<"long_factor", PyTuple(<<2, 2>>)>>, OrigMax(2)>>
D_longrope_rev ==
    <<OrigMax(2), <<"long_factor", PyList(<<2, 2>>)>>,
      <<"short_factor", PyList(<<1, 1>>)>>, RopeType("longrope")>>
D_llama3 ==
    <<RopeType("llama3"), <<"factor", PyFloat(8, 1)>>,
      <<"low_freq_factor", PyFloat(1, 1)>>, <<"high_freq_factor", PyFloat(4, 1)>>,
      OrigMax(2)>>
D_mllama4 == <<RopeType("mllama4")>>
D_default == <<RopeType("default")>>
D_mrope == <<RopeType("default"), <<"mrope_section", PyList(<<1, 1>>)>>>>
D_mrope_rev == <<(<<"mrope_section", PyList(<<1, 1>>)>>), RopeType("default")>>
D_ntk == <<RopeType("ntk"), <<"factor", PyFloat(2, 1)>>>>
D_bogus == <<RopeType("bogus"), <<"factor", PyFloat(2, 1)>>>>
D_no_type == <<(<<"factor", PyFloat(2, 1)>>)>>

Descriptors ==
    {<<>>, D_linear, D_linear_rev, D_linear_frac, D_linear_int, D_linear_list,
     D_linear_three,
     D_dynamic_factor, D_dynamic_alpha, D_dynamic_bare, D_yarn, D_deepseek_yarn,
     D_longrope, D_longrope_tuples, D_longrope_rev, D_llama3, D_mllama4,
     D_default, D_mrope, D_mrope_rev, D_ntk, D_bogus, D_no_type}

DualCfg == <<(<<"chunk_size", PyInt(4)>>), <<"local_size", PyInt(2)>>>>
DualCfgSparse == DualCfg \o <<(<<"sparse_attention_config", PyStr("cfg")>>)>>
DualCfgShort == <<(<<"chunk_size", PyInt(4)>>)>>

\* get_rope(4, 4, 3, 10000): every other argument at its default
Args0 ==
    [head_size |-> 4, rotary_dim |-> 4, max_position |-> 3, base |-> 10000,
     is_neox_style |-> TRUE, hasScaling |-> FALSE, rope_scaling |-> <<>>,
     dtype |-> "None", prf |-> <<1, 1>>, hasDual |-> FALSE, dual |-> <<>>]

Scaled(d) == [Args0 EXCEPT !.hasScaling = TRUE, !.rope_scaling = d]
WithDual(a, dc) == [a EXCEPT !.hasDual = TRUE, !.dual = dc]

Configs ==
    {Args0}
    \cup {Scaled(d) : d \in Descriptors}
    \cup {[Scaled(d) EXCEPT !.is_neox_style = FALSE] :
            d \in {D_longrope, D_default, D_bogus, D_dynamic_bare}}
    \cup {[Args0 EXCEPT !.prf = <<1, 2>>], [Args0 EXCEPT !.rotary_dim = 2],
          [Args0 EXCEPT !.dtype = "float32"], [Args0 EXCEPT !.dtype = "bfloat16"]}
    \cup {WithDual(a, dc) : a \in {Args0, Scaled(D_bogus), Scaled(D_dynamic_bare)},
                            dc \in {DualCfg, DualCfgSparse}}
    \cup {WithDual(Args0, DualCfgShort)}

\* the configurations threads race on
RaceConfigs == {Args0, Scaled(D_linear), Scaled(D_dynamic_bare)}

\* ------------------------------------------------- multimodal positions

\* token ids of hf_config, by name; every other id is "text"
image_token_id == "image"
video_token_id == "video"
audio_token_id == "audio"
vision_start_token_id == "vision_start"
vision_end_token_id == "vision_end"
audio_start_token_id == "audio_start"
audio_end_token_id == "audio_end"
video_start_token_id == "video_start"
video_end_token_id == "video_end"

\* an argument that may be None
NoneInt == [some |-> FALSE, v |-> 0]
NoneList == [some |-> FALSE, v |-> <<>>]
Some(x) == [some |-> TRUE, v |-> x]

\* a position tensor is the sequence of its columns <<t, h, w>>;
\* llm_pos_ids_list is a sequence of such tensors
Max2(x, y) == IF x >= y THEN x ELSE y
ColMax(c) == Max2(c[1], Max2(c[2], c[3]))
TensorMax(b) == CHOOSE m \in {ColMax(b[i]) : i \in 1..Len(b)} :
                    \A i \in 1..Len(b) : ColMax(b[i]) <= m
RECURSIVE Cat(_)
Cat(blocks) == IF blocks = <<>> THEN <<>> ELSE Head(blocks) \o Cat(Tail(blocks))
\* torch.arange(n).view(1, -1).expand(3, -1) + start
Arange3(n, start) == [i \in 1..n |-> <<start + i - 1, start + i - 1, start + i - 1>>]
\* a faulty variant of GridBlock: the grid flattened with h innermost
GridBlockColumnMajor(tvals, gh, gw, start) ==
    [c \in 1..(Len(tvals) * gh * gw) |->
        <<tvals[((c - 1) \div (gh * gw)) + 1] + start,
          ((c - 1) % gh) + start,
          (((c - 1) % (gh * gw)) \div gh) + start>>]
\* torch.stack([t_index, h_index, w_index]) + start, the three indices
\* expanded over the (t, h, w) grid and flattened row-major
GridBlock(tvals, gh, gw, start) ==
    [c \in 1..(Len(tvals) * gh * gw) |->
        <<tvals[((c - 1) \div (gh * gw)) + 1] + start,
          (((c - 1) % (gh * gw)) \div gw) + start,
          ((c - 1) % gw) + start>>]
\* tensor.split(1, dim=1): one tensor per column, a single empty tensor when
\* there is no column
SplitColumns(b) == IF b = <<>> THEN << <<>> >> ELSE [i \in 1..Len(b) |-> <<b[i]>>]

\* llm_pos_ids_list[-1].max() + 1 if len(llm_pos_ids_list) > 0 else 0;
\* max() of an empty tensor raises
LastEmpty(blocks) == blocks # <<>> /\ blocks[Len(blocks)] = <<>>
\* a faulty variant of NextStart: the next block starts on the last index used
NextStartOverlapping(blocks) == IF blocks = <<>> THEN 0 ELSE TensorMax(blocks[Len(blocks)])
NextStart(blocks) == IF blocks = <<>> THEN 0 ELSE TensorMax(blocks[Len(blocks)]) + 1

\* llm_positions[:, context_len:seq_len]
SliceColumns(all, context_len, seq_len) ==
    LET hi == IF ~seq_len.some THEN Len(all) ELSE Min(seq_len.v, Len(all))
    IN SubSeq(all, context_len + 1, hi)

Resolved(positions, delta, blocks) ==
    [err |-> "", positions |-> positions, delta |-> delta, blocks |-> blocks]
ResolveFails(e) == [err |-> e, positions |-> <<>>, delta |-> 0, blocks |-> <<>>]

\* list.index(tok, st), 0-based; -1 stands for its ValueError
IndexFrom(tokens, tok, st) ==
    LET hits == {i \in (st + 1)..Len(tokens) : tokens[i] = tok}
    IN IF hits = {} THEN -1
       ELSE (CHOOSE i \in hits : \A j \in hits : i <= j) - 1
Contains(tokens, tok) == \E i \in 1..Len(tokens) : tokens[i] = tok

\* (torch.arange(grid_t) * second_per_grid_t * tokens_per_second).long()
\* a faulty variant of TIndex: the frames counted down
TIndexReversed(grid_t, second_per_grid_t, tokens_per_second) ==
    [i \in 1..grid_t |-> (grid_t - i) * second_per_grid_t * tokens_per_second]
TIndex(grid_t, second_per_grid_t, tokens_per_second) ==
    [i \in 1..grid_t |-> (i - 1) * second_per_grid_t * tokens_per_second]

\* one pass of the loop of _vl_get_input_positions_tensor, lines 1260-1311
VlStep(in, s) ==
    LET n == Len(in.tokens)
        ed_image == IF Contains(in.tokens, image_token_id) /\ s.remain_images > 0
                    THEN IndexFrom(in.tokens, image_token_id, s.st) ELSE n + 1
        ed_video == IF Contains(in.tokens, video_token_id) /\ s.remain_videos > 0
                    THEN IndexFrom(in.tokens, video_token_id, s.st) ELSE n + 1
        isImage == ed_image < ed_video
        grids == IF isImage THEN in.image_grid_thw.v ELSE in.video_grid_thw.v
        gi == IF isImage THEN s.image_index ELSE s.video_index
    IN IF ed_image = -1 \/ ed_video = -1 THEN [s EXCEPT !.err = "ValueError"]
       ELSE IF gi >= Len(grids) THEN [s EXCEPT !.err = "IndexError"]
       ELSE IF ~isImage /\ in.second_per_grid_ts # <<>> /\ gi >= Len(in.second_per_grid_ts)
       THEN [s EXCEPT !.err = "IndexError"]
       ELSE IF LastEmpty(s.blocks) THEN [s EXCEPT !.err = "RuntimeError"]
       ELSE
       LET g == grids[gi + 1]
           video_second_per_grid_t ==
               IF isImage THEN 0
               ELSE IF in.second_per_grid_ts # <<>> THEN in.second_per_grid_ts[gi + 1]
               ELSE 1
           llm_grid_h == g[2] \div in.spatial_merge_size
           llm_grid_w == g[3] \div in.spatial_merge_size
           ed == IF isImage THEN ed_image ELSE ed_video
           text_len == ed - s.st
           st_idx == NextStart(s.blocks)
       IN [s EXCEPT
             !.blocks = @ \o <<Arange3(text_len, st_idx),
                               GridBlock(TIndex(g[1], video_second_per_grid_t,
                                                in.tokens_per_second),
                                         llm_grid_h, llm_grid_w, text_len + st_idx)>>,
             !.st = ed + g[1] * llm_grid_h * llm_grid_w,
             !.image_index = IF isImage THEN @ + 1 ELSE @,
             !.remain_images = IF isImage THEN @ - 1 ELSE @,
             !.video_index = IF isImage THEN @ ELSE @ + 1,
             !.remain_videos = IF isImage THEN @ ELSE @ - 1]

RECURSIVE VlLoop(_, _, _)
VlLoop(in, s, todo) ==
    IF todo = 0 \/ s.err # "" THEN s ELSE VlLoop(in, VlStep(in, s), todo - 1)

\* the text after the last vision block, lines 1313-1318
TailText(in, s) ==
    IF s.st < Len(in.tokens)
    THEN s.blocks \o <<Arange3(Len(in.tokens) - s.st, NextStart(s.blocks))>>
    ELSE s.blocks

\* MRotaryEmbedding._vl_get_input_positions_tensor, lines 1228-1325
VlGetInputPositionsTensor(in) ==
    LET n == Len(in.tokens)
        starts == {i \in 1..n : in.tokens[i] = vision_start_token_id}
    IN IF n \in starts THEN ResolveFails("IndexError")
       ELSE
       LET image_nums == Cardinality({i \in starts : in.tokens[i + 1] = image_token_id})
           video_nums == Cardinality({i \in starts : in.tokens[i + 1] = video_token_id})
           s == VlLoop(in, [st |-> 0, blocks |-> <<>>, image_index |-> 0, video_index |-> 0,
                            remain_images |-> image_nums, remain_videos |-> video_nums,
                            err |-> ""],
                       image_nums + video_nums)
       IN IF s.err # "" THEN ResolveFails(s.err)
          ELSE IF s.st < n /\ LastEmpty(s.blocks) THEN ResolveFails("RuntimeError")
          ELSE LET blocks == TailText(in, s)
                   all == Cat(blocks)
               IN IF all = <<>> THEN ResolveFails("RuntimeError")
                  ELSE Resolved(SliceColumns(all, in.context_len, in.seq_len),
                                TensorMax(all) + 1 - n, blocks)

\* lines 1141-1154: the type of token i (1-based), video_check_flg being set
\* by the last video_start / video_end seen up to and including it
VideoCheckFlg(tokens, i) ==
    LET marks == {j \in 1..i : tokens[j] \in {video_start_token_id, video_end_token_id}}
    IN /\ marks # {}
       /\ tokens[CHOOSE j \in marks : \A k \in marks : k <= j] = video_start_token_id
InputTokenType(tokens) ==
    [i \in 1..Len(tokens) |->
        IF tokens[i] = image_token_id
        THEN IF VideoCheckFlg(tokens, i) THEN "video" ELSE "image"
        ELSE "text"]

\* lines 1156-1162: itertools.groupby into (key, start_index, end_index)
RECURSIVE GroupRuns(_, _)
GroupRuns(types, from) ==
    IF from > Len(types) THEN <<>>
    ELSE LET stop == CHOOSE e \in from..Len(types) :
                        /\ \A j \in from..e : types[j] = types[from]
                        /\ (e = Len(types) \/ types[e + 1] # types[from])
         IN <<[key |-> types[from], start_index |-> from - 1, end_index |-> stop]>>
                \o GroupRuns(types, stop + 1)
InputTypeGroup(tokens) == GroupRuns(InputTokenType(tokens), 1)

\* one pass of the loop over input_type_group, lines 1166-1215
Glm4vStep(in, s, grp) ==
    IF LastEmpty(s.blocks) THEN [s EXCEPT !.err = "RuntimeError"]
    ELSE
    LET st_idx == NextStart(s.blocks) IN
    IF grp.key = "text"
    THEN [s EXCEPT !.blocks = @ \o <<Arange3(grp.end_index - grp.start_index, st_idx)>>,
                   !.video_frame_num = 1]
    ELSE IF ~in.image_grid_thw.some THEN [s EXCEPT !.err = "TypeError"]
    ELSE IF s.mm_data_idx >= Len(in.image_grid_thw.v) THEN [s EXCEPT !.err = "IndexError"]
    ELSE
    LET g == in.image_grid_thw.v[s.mm_data_idx + 1]
        llm_grid_h == g[2] \div in.spatial_merge_size
        llm_grid_w == g[3] \div in.spatial_merge_size
    IN IF grp.key = "image"
       THEN [s EXCEPT !.blocks = @ \o <<GridBlock(TIndex(g[1], 1, 1), llm_grid_h,
                                                  llm_grid_w, st_idx)>>,
                      !.mm_data_idx = @ + 1]
       ELSE [s EXCEPT !.blocks = @ \o [t \in 1..s.video_frame_num |->
                                          GridBlock(<<t - 1>>, llm_grid_h, llm_grid_w,
                                                    st_idx)],
                      !.mm_data_idx = @ + 1,
                      !.video_frame_num = @ + 1]

RECURSIVE Glm4vLoop(_, _, _)
Glm4vLoop(in, s, groups) ==
    IF groups = <<>> \/ s.err # "" THEN s
    ELSE Glm4vLoop(in, Glm4vStep(in, s, Head(groups)), Tail(groups))

\* MRotaryEmbedding._glm4v_get_input_positions_tensor, lines 1119-1226
Glm4vGetInputPositionsTensor(in) ==
    LET n == Len(in.tokens)
        s == IF in.image_grid_thw.some \/ in.video_grid_thw.some
             THEN Glm4vLoop(in, [blocks |-> <<>>, video_frame_num |-> 1, mm_data_idx |-> 0,
                                 err |-> ""],
                            InputTypeGroup(in.tokens))
             ELSE [blocks |-> <<Arange3(n, 0)>>, video_frame_num |-> 1, mm_data_idx |-> 0,
                   err |-> ""]
    IN IF s.err # "" THEN ResolveFails(s.err)
       ELSE IF s.blocks = <<>> THEN ResolveFails("RuntimeError")
       ELSE LET llm_positions == SliceColumns(Cat(s.blocks), in.context_len, in.seq_len)
            IN IF llm_positions = <<>> THEN ResolveFails("RuntimeError")
               ELSE Resolved(llm_positions, TensorMax(llm_positions) + 1 - n, s.blocks)

\* MRotaryEmbedding._get_llm_pos_ids_for_vision, lines 1512-1533
GetLlmPosIdsForVision(start_idx, vision_idx, spatial_merge_size, t_index, grid_thw) ==
    GridBlock(t_index, grid_thw[vision_idx + 1][2] \div spatial_merge_size,
              grid_thw[vision_idx + 1][3] \div spatial_merge_size, start_idx)

\* MRotaryEmbedding._split_list_into_ranges, lines 1535-1543
SeqMax(q) == CHOOSE m \in {q[i] : i \in 1..Len(q)} : \A i \in 1..Len(q) : q[i] <= m
SplitListIntoRanges(lst, interval) ==
    [r \in 1..((SeqMax(lst) \div interval) + 1) |->
        SelectSeq(lst, LAMBDA num : num \div interval = r - 1)]

\* place_num of an audio item, line 1411
PlaceNum(audio_seqlen) == FloorDiv(FloorDiv(audio_seqlen - 1, 2) + 1 - 2, 2) + 1

\* one pass of the loop over t_index_split_chunk, lines 1465-1491; v holds
\* what the branch computed before the loop
AudioInVideoChunk(in, c, t_chunk, v) ==
    LET vision_ntoken_per_chunk ==
            (Len(t_chunk) * v.grid_h * v.grid_w)
                \div (in.spatial_merge_size * in.spatial_merge_size)
        vision == SplitColumns(GetLlmPosIdsForVision(v.start_idx, v.video_idx,
                                   in.spatial_merge_size, t_chunk, in.video_grid_thw.v))
        take == Min(v.t_ntoken_per_chunk, v.pure_audio_len - c.added_audio_len)
        audio_start_idx == IF c.audio = <<>> THEN v.start_idx
                           ELSE c.audio[Len(c.audio)][1][1] + 1
        audio == IF take > 0 THEN SplitColumns(Arange3(take, audio_start_idx)) ELSE <<>>
    IN [blocks |-> c.blocks \o vision \o audio,
        audio |-> audio,
        added_audio_len |-> c.added_audio_len + take,
        new_len |-> c.new_len + vision_ntoken_per_chunk + Max2(take, 0)]

RECURSIVE AudioInVideoChunks(_, _, _, _)
AudioInVideoChunks(in, c, chunks, v) ==
    IF chunks = <<>> THEN c
    ELSE AudioInVideoChunks(in, AudioInVideoChunk(in, c, Head(chunks), v), Tail(chunks), v)

\* second_per_grid_ts, defaulted at lines 1379-1380
SecondPerGridTs(in) ==
    IF in.second_per_grid_ts = <<>> THEN [i \in 1..Len(in.video_grid_thw.v) |-> 1]
    ELSE in.second_per_grid_ts

\* a token that is no placeholder, lines 1392-1407
OmniText(in, s, start_idx) ==
    LET tok == in.tokens[s.idx + 1]
        back == /\ in.use_audio_in_video
                /\ s.idx > 0
                /\ \/ /\ tok = vision_end_token_id
                      /\ in.tokens[s.idx] = audio_end_token_id
                   \/ /\ tok = audio_start_token_id
                      /\ in.tokens[s.idx] = vision_start_token_id
        at == IF back THEN start_idx - 1 ELSE start_idx
    IN [s EXCEPT !.blocks = @ \o << <<<<at, at, at>>>> >>, !.idx = @ + 1]

\* a faulty variant of OmniAudio: the index advances by one fewer than the
\* placeholders of the item
OmniAudioShort(in, s, start_idx) ==
    IF ~in.audio_feature_lengths.some THEN [s EXCEPT !.err = "AssertionError"]
    ELSE IF s.audio_idx >= Len(in.audio_feature_lengths.v) THEN [s EXCEPT !.err = "IndexError"]
    ELSE LET place_num == PlaceNum(in.audio_feature_lengths.v[s.audio_idx + 1])
         IN [s EXCEPT !.blocks = @ \o <<Arange3(place_num, start_idx)>>,
                      !.audio_idx = @ + 1,
                      !.idx = @ + Max2(place_num, 0) - 1]

\* an audio placeholder, lines 1408-1415
OmniAudio(in, s, start_idx) ==
    IF ~in.audio_feature_lengths.some THEN [s EXCEPT !.err = "AssertionError"]
    ELSE IF s.audio_idx >= Len(in.audio_feature_lengths.v) THEN [s EXCEPT !.err = "IndexError"]
    ELSE LET place_num == PlaceNum(in.audio_feature_lengths.v[s.audio_idx + 1])
         IN [s EXCEPT !.blocks = @ \o <<Arange3(place_num, start_idx)>>,
                      !.audio_idx = @ + 1,
                      !.idx = @ + Max2(place_num, 0)]

\* an image placeholder, or a video placeholder without use_audio_in_video,
\* lines 1416-1443
OmniVision(in, s, start_idx, isImage) ==
    LET grids == IF isImage THEN in.image_grid_thw.v ELSE in.video_grid_thw.v
        vi == IF isImage THEN s.image_idx ELSE s.video_idx
    IN IF vi >= Len(grids) THEN [s EXCEPT !.err = "IndexError"]
       ELSE IF ~isImage /\ vi >= Len(SecondPerGridTs(in)) THEN [s EXCEPT !.err = "IndexError"]
       ELSE
       LET g == grids[vi + 1]
           t_index == TIndex(g[1], IF isImage THEN 1 ELSE SecondPerGridTs(in)[vi + 1],
                             in.tokens_per_second)
           vision_seqlen == (g[1] * g[2] * g[3])
                                \div (in.spatial_merge_size * in.spatial_merge_size)
       IN [s EXCEPT !.blocks = @ \o <<GetLlmPosIdsForVision(start_idx, vi,
                                          in.spatial_merge_size, t_index, grids)>>,
                    !.image_idx = IF isImage THEN @ + 1 ELSE @,
                    !.video_idx = IF isImage THEN @ ELSE @ + 1,
                    !.idx = @ + vision_seqlen]

\* a video placeholder with use_audio_in_video, lines 1444-1501
OmniAudioInVideo(in, s, start_idx) ==
    IF ~in.audio_feature_lengths.some THEN [s EXCEPT !.err = "AssertionError"]
    ELSE IF s.audio_idx >= Len(in.audio_feature_lengths.v) THEN [s EXCEPT !.err = "IndexError"]
    ELSE IF s.video_idx >= Len(in.video_grid_thw.v) THEN [s EXCEPT !.err = "IndexError"]
    ELSE IF s.video_idx >= Len(SecondPerGridTs(in)) THEN [s EXCEPT !.err = "IndexError"]
    ELSE
    LET g == in.video_grid_thw.v[s.video_idx + 1]
        t_ntoken_per_chunk == in.tokens_per_second * in.seconds_per_chunk
        t_index == TIndex(g[1], SecondPerGridTs(in)[s.video_idx + 1], in.tokens_per_second)
        pure_audio_len == PlaceNum(in.audio_feature_lengths.v[s.audio_idx + 1]) + 2 - 2
        c == AudioInVideoChunks(in,
                 [blocks |-> s.blocks, audio |-> <<>>, added_audio_len |-> 0, new_len |-> 0],
                 SplitListIntoRanges(t_index, t_ntoken_per_chunk),
                 [start_idx |-> start_idx, video_idx |-> s.video_idx, grid_h |-> g[2],
                  grid_w |-> g[3], t_ntoken_per_chunk |-> t_ntoken_per_chunk,
                  pure_audio_len |-> pure_audio_len])
        left == pure_audio_len - c.added_audio_len
    IN IF left > 0 /\ LastEmpty(c.blocks) THEN [s EXCEPT !.err = "RuntimeError"]
       ELSE [s EXCEPT
               !.blocks = IF left > 0
                          THEN c.blocks \o SplitColumns(Arange3(left, NextStart(c.blocks)))
                          ELSE c.blocks,
               !.audio_idx = @ + 1,
               !.video_idx = @ + 1,
               !.idx = @ + c.new_len + Max2(left, 0)]

\* one pass of the while loop, lines 1388-1503
OmniStep(in, s) ==
    IF LastEmpty(s.blocks) THEN [s EXCEPT !.err = "RuntimeError"]
    ELSE
    LET start_idx == NextStart(s.blocks)
        tok == in.tokens[s.idx + 1]
    IN IF tok \notin {audio_token_id, video_token_id, image_token_id}
       THEN OmniText(in, s, start_idx)
       ELSE IF tok = audio_token_id THEN OmniAudio(in, s, start_idx)
       ELSE IF tok = image_token_id THEN OmniVision(in, s, start_idx, TRUE)
       ELSE IF ~in.use_audio_in_video THEN OmniVision(in, s, start_idx, FALSE)
       ELSE OmniAudioInVideo(in, s, start_idx)

RECURSIVE OmniLoop(_, _)
OmniLoop(in, s) ==
    IF s.idx >= Len(in.tokens) \/ s.err # "" THEN s ELSE OmniLoop(in, OmniStep(in, s))

\* MRotaryEmbedding._omni_get_input_positions_tensor, lines 1327-1510
OmniGetInputPositionsTensor(in) ==
    LET s == OmniLoop(in, [idx |-> 0, blocks |-> <<>>, audio_idx |-> 0, video_idx |-> 0,
                           image_idx |-> 0, err |-> ""])
    IN IF s.err # "" THEN ResolveFails(s.err)
       ELSE LET all == Cat(s.blocks)
            IN IF all = <<>> THEN ResolveFails("RuntimeError")
               ELSE Resolved(SliceColumns(all, in.context_len, in.seq_len),
                             TensorMax(all) + 1 - Len(in.tokens), s.blocks)

\* MRotaryEmbedding.get_input_positions_tensor, lines 1073-1117
GetInputPositionsTensor(in) ==
    IF in.model_type = "omni" THEN OmniGetInputPositionsTensor(in)
    ELSE IF in.model_type = "glm4v" THEN Glm4vGetInputPositionsTensor(in)
    ELSE VlGetInputPositionsTensor(in)

\* ---------------------------------------------------- decode continuation

\* Tensor.tolist() of a 3 x n tensor: one list per axis
ToList(positions) == [axis \in 1..3 |-> [c \in 1..Len(positions) |-> positions[c][axis]]]
OrEmpty(x) == IF x.some THEN x ELSE Some(<<>>)

\* MRotaryEmbedding.get_input_positions, lines 1038-1071: absent grids become
\* empty lists, the positions are returned as lists
GetInputPositions(in) ==
    LET out == GetInputPositionsTensor([in EXCEPT !.image_grid_thw = OrEmpty(@),
                                                  !.video_grid_thw = OrEmpty(@)])
    IN [out EXCEPT !.positions = ToList(@)]

\* list(range(lo, hi))
Range(lo, hi) == [i \in 1..Max2(hi - lo, 0) |-> lo + i - 1]

\* a faulty variant of GetNextInputPositions: the delta is not added
GetNextInputPositionsNoDelta(mrope_position_delta, context_len, seq_len) ==
    [axis \in 1..3 |-> Range(context_len, seq_len)]
\* MRotaryEmbedding.get_next_input_positions, lines 1545-1555
GetNextInputPositions(mrope_position_delta, context_len, seq_len) ==
    [axis \in 1..3 |->
        Range(context_len + mrope_position_delta, seq_len + mrope_position_delta)]

NoLists == <<<<>>, <<>>, <<>>>>
DecIdle ==
    [phase |-> "idle", n |-> 0, prompt |-> NoLists, top |-> 0, delta |-> 0, k |-> 0,
     next |-> NoLists]

\* ------------------------------------------------------------ cache placement

\* where a tensor lives: its device and its dtype
Devices == {"cuda:0", "cuda:1", "xpu:0"}
Dtypes == {"float32", "float16", "bfloat16"}
NotCalling == [pc |-> "idle", device |-> "cpu", dtype |-> "float32"]

\* RotaryEmbedding.__init__, lines 114-117: the buffer is built on the default
\* device in the dtype of the instance; moves counts its changes of placement
CacheBuilt ==
    [device |-> "cpu", dtype |-> "float32", moves |-> 0,
     callers |-> [t \in 1..NumThreads |-> NotCalling]]

Placement(c) == <<c.device, c.dtype>>
\* self.cos_sin_cache = self.cos_sin_cache.to(device, dtype=dtype)
MovedTo(c, device, dtype) ==
    [c EXCEPT !.device = device, !.dtype = dtype,
              !.moves = IF <<device, dtype>> = Placement(c) THEN @
                        ELSE IF @ < MaxMoves THEN @ + 1 ELSE @]

\* no static helper has been called yet
NoCall == [op |-> "none", in |-> <<>>, out |-> <<>>]

\* ------------------------------------------------------------------ get_rope

Threads == 1..NumThreads

Idle ==
    [pc |-> "idle", args |-> Args0, key |-> KeyOf(Args0), reg0 |-> <<>>,
     result |-> 0, err |-> "", hit |-> FALSE]

\* lines 1812-1837: the call computes its key
Call(t, a) ==
    /\ thr[t].pc = "idle"
    /\ ncalls < MaxCalls
    /\ ncalls' = ncalls + 1
    /\ thr' = [thr EXCEPT ![t] = [Idle EXCEPT !.pc = "lookup", !.args = a,
                                              !.key = KeyOf(a), !.reg0 = registry]]
    /\ UNCHANGED <<registry, objs, returned, built, last, app, res, dec, cache, fcall>>

\* lines 1838-1839: if key in _ROPE_DICT: return _ROPE_DICT[key]
Hit(key) == key \in DOMAIN registry
Lookup(t) ==
    /\ thr[t].pc = "lookup"
    /\ IF Hit(thr[t].key)
       THEN /\ thr' = [thr EXCEPT ![t].pc = "done", ![t].hit = TRUE,
                                  ![t].result = registry[thr[t].key]]
            /\ returned' = returned \cup {<<thr[t].args, registry[thr[t].key]>>}
       ELSE /\ thr' = [thr EXCEPT ![t].pc = "construct"]
            /\ UNCHANGED returned
    /\ UNCHANGED <<registry, objs, ncalls, built, last, app, res, dec, cache, fcall>>

\* lines 1841-1965: the constructor runs, or the call raises; a call that
\* raises leaves get_rope before line 1966
Construct(t) ==
    /\ thr[t].pc = "construct"
    /\ LET b == Build(thr[t].args, thr[t].key.rotary_dim)
           id == Cardinality(DOMAIN objs) + 1
       IN IF b.err # ""
          THEN /\ thr' = [thr EXCEPT ![t].pc = "done", ![t].err = b.err]
               /\ UNCHANGED <<objs, built>>
          ELSE /\ thr' = [thr EXCEPT ![t].pc = "store", ![t].result = id]
               /\ objs' = (id :> b.obj) @@ objs
               /\ built' = built \cup {<<thr[t].args, id>>}
    /\ UNCHANGED <<registry, ncalls, returned, last, app, res, dec, cache, fcall>>

\* a faulty variant of Store: the object is returned and never stored
StoreForgotten(t) ==
    /\ thr[t].pc = "store"
    /\ thr' = [thr EXCEPT ![t].pc = "done"]
    /\ returned' = returned \cup {<<thr[t].args, thr[t].result>>}
    /\ UNCHANGED <<registry, objs, ncalls, built, last, app, res, dec, cache, fcall>>
\* lines 1966-1967: _ROPE_DICT[key] = rotary_emb; return rotary_emb
Store(t) ==
    /\ thr[t].pc = "store"
    /\ registry' = (thr[t].key :> thr[t].result) @@ registry
    /\ thr' = [thr EXCEPT ![t].pc = "done"]
    /\ returned' = returned \cup {<<thr[t].args, thr[t].result>>}
    /\ UNCHANGED <<objs, ncalls, built, last, app, res, dec, cache, fcall>>

\* the caller goes on
Return(t) ==
    /\ thr[t].pc = "done"
    /\ thr' = [thr EXCEPT ![t] = Idle]
    /\ last' = [args |-> thr[t].args, err |-> thr[t].err, result |-> thr[t].result]
    /\ UNCHANGED <<registry, objs, ncalls, returned, built, app, res, dec, cache, fcall>>

AppIdle ==
    [op |-> "none", o |-> Obj0(Args0, 0, "none"), ndim |-> 1, positions |-> <<>>,
     offsets |-> <<>>, query |-> NoTensor, key |-> NoTensor, out |-> Raised("")]

ResIdle ==
    [op |-> "none",
     in |-> [model_type |-> "vl", tokens |-> <<>>, image_grid_thw |-> NoneList,
             video_grid_thw |-> NoneList, second_per_grid_ts |-> <<>>,
             audio_feature_lengths |-> NoneList, use_audio_in_video |-> FALSE,
             context_len |-> 0, seq_len |-> NoneInt, spatial_merge_size |-> 1,
             tokens_per_second |-> 1, seconds_per_chunk |-> 1],
     out |-> ResolveFails("")]

InitRegistry ==
    /\ registry = <<>>
    /\ objs = <<>>
    /\ thr = [t \in Threads |-> Idle]
    /\ ncalls = 0
    /\ returned = {}
    /\ built = {}
    /\ last = [args |-> Args0, err |-> "none", result |-> 0]

\* one caller: get_rope calls made one after the other
SeqCall == \E a \in Configs : Call(1, a)
SeqLookup == Lookup(1)
SeqConstruct == Construct(1)
SeqStore == Store(1)
SeqReturn == Return(1)

Init == InitRegistry /\ app = AppIdle /\ res = ResIdle /\ dec = DecIdle /\ cache = CacheBuilt
    /\ fcall = NoCall
Next == SeqCall \/ SeqLookup \/ SeqConstruct \/ SeqStore \/ SeqReturn
Spec == Init /\ [][Next]_vars

\* several threads in get_rope at once; _ROPE_DICT is guarded by nothing, and a
\* thread may be preempted between any two of its steps
RaceCall == \E t \in Threads, a \in RaceConfigs : Call(t, a)
RaceLookup == \E t \in Threads : Lookup(t)
RaceConstruct == \E t \in Threads : Construct(t)
RaceStore == \E t \in Threads : Store(t)
RaceReturn == \E t \in Threads : Return(t)

NextRace == RaceCall \/ RaceLookup \/ RaceConstruct \/ RaceStore \/ RaceReturn
SpecRace == Init /\ [][NextRace]_vars

\* ------------------------------------------------------------ forward calls

\* the variants forward is called on, as get_rope constructs them
LongRope1 ==
    <<RopeType("longrope"), <<"short_factor", PyList(<<1>>)>>,
      <<"long_factor", PyList(<<2>>)>>, OrigMax(2)>>
LongRope3 ==
    <<RopeType("longrope"), <<"short_factor", PyList(<<1>>)>>,
      <<"long_factor", PyList(<<2>>)>>, OrigMax(3)>>
MRope3 == <<RopeType("default"), <<"mrope_section", PyList(<<1, 1, 1>>)>>>>
Args2 == [Args0 EXCEPT !.max_position = 2]

ApplyConfigs ==
    {[Args2 EXCEPT !.rotary_dim = rd, !.is_neox_style = nx, !.hasScaling = TRUE,
                   !.rope_scaling = d] :
        rd \in {4}, nx \in BOOLEAN, d \in {D_default, D_deepseek_yarn, D_mrope}}
    \cup {[Args2 EXCEPT !.rotary_dim = 2, !.is_neox_style = nx, !.hasScaling = TRUE,
                        !.rope_scaling = d] :
            nx \in BOOLEAN, d \in {D_default, D_deepseek_yarn}}
    \cup {[Args2 EXCEPT !.head_size = 8, !.rotary_dim = 6, !.is_neox_style = nx,
                        !.hasScaling = TRUE, !.rope_scaling = MRope3] : nx \in BOOLEAN}
    \cup {Scaled(D_longrope), [Scaled(LongRope1) EXCEPT !.rotary_dim = 2],
          [Scaled(LongRope3) EXCEPT !.rotary_dim = 2, !.max_position = 5]}
    \cup {[WithDual(Args0, DualCfg) EXCEPT !.rotary_dim = rd, !.is_neox_style = nx] :
            rd \in {2, 4}, nx \in BOOLEAN}
    \cup {[Scaled(D_mllama4) EXCEPT !.max_position = 1, !.rotary_dim = 2]}

Instances == {Build(a, EffRotaryDim(a)).obj : a \in ApplyConfigs}

NativeClasses == {"RotaryEmbedding"}
InstancesOf(classes) == {o \in Instances : o.cls \in classes}

\* positions around both ends of a table of n rows
ProbePositions(n) == {-(n + 1), -n, -1, 0, 1, n - 1, n}
TokenCounts == 1..MaxTokens
QuerySeeds == {1, 5}
NumQueryHeads == 2
NumKvHeads == 1

\* a tensor whose elements are all different and none zero
TensorOf(seed, n, heads, hs) ==
    [i \in 1..n |-> [h \in 1..heads |-> [c \in 1..hs |-> seed + 100 * i + 10 * h + c]]]

Applied(op, o, ndim, positions, offsets, query, key, out) ==
    /\ app.op = "none"
    /\ app' = [op |-> op, o |-> o, ndim |-> ndim, positions |-> positions,
               offsets |-> offsets, query |-> query, key |-> key, out |-> out]
    /\ UNCHANGED <<registry, objs, thr, ncalls, returned, built, last, res, dec, cache, fcall>>

\* offsets=None, or one offset for every token
OffsetChoices(n) == {<<>>, [i \in 1..n |-> 1]}
PositionVectors(o, n) == [1..n -> ProbePositions(o.rows)]
Triples(pos) == [i \in 1..Len(pos) |-> <<pos[i], pos[i], pos[i]>>]
\* positions around both ends of the short and of the long table
Phi3PositionVectors(o, n) ==
    LET k == o.original_max_position_embeddings
    IN [1..n -> ProbePositions(o.rows)
                \cup {k - 1, k, k + 1, o.max_position_embeddings - 1}]

CallForwardNative ==
    /\ app.op = "none"
    /\ \E o \in InstancesOf(NativeClasses), n \in TokenCounts, seed \in QuerySeeds, hasKey \in BOOLEAN :
       \E pos \in PositionVectors(o, n), offs \in OffsetChoices(n) :
           /\ LET q == TensorOf(seed, n, NumQueryHeads, o.head_size)
                  k == IF hasKey THEN TensorOf(seed + 50, n, NumKvHeads, o.head_size)
                       ELSE NoTensor
              IN Applied("forward_native", o, 1, Triples(AddOffsets(pos, offs)), offs, q, k,
                         ForwardNative(o, pos, offs, q, k))

CallMRopeForward ==
    /\ app.op = "none"
    /\ \E o \in InstancesOf({"MRotaryEmbedding"}), n \in TokenCounts, seed \in QuerySeeds, hasKey \in BOOLEAN :
       \E pos \in PositionVectors(o, n), ndim \in {1, 2}, d \in {0, 1} :
           /\ LET q == TensorOf(seed, n, NumQueryHeads, o.head_size)
                  k == IF hasKey THEN TensorOf(seed + 50, n, NumKvHeads, o.head_size)
                       ELSE NoTensor
                  p3 == [i \in 1..n |-> <<pos[i], pos[i] + d, pos[i] + 2 * d>>]
              IN /\ ndim = 1 => d = 0
                 /\ Applied("mrope_forward", o, ndim, p3, <<>>, q, k,
                            MRopeForward(o, ndim, p3, q, k))

CallDeepseekForward ==
    /\ app.op = "none"
    /\ \E o \in InstancesOf({"DeepseekScalingRotaryEmbedding"}), n \in TokenCounts, seed \in QuerySeeds, hasKey \in BOOLEAN :
       \E pos \in PositionVectors(o, n), offs \in OffsetChoices(n) :
           /\ LET q == TensorOf(seed, n, NumQueryHeads, o.head_size)
                  k == IF hasKey THEN TensorOf(seed + 50, n, NumKvHeads, o.head_size)
                       ELSE NoTensor
              IN Applied("deepseek_forward", o, 1, Triples(AddOffsets(pos, offs)), offs, q, k,
                         DeepseekForward(o, pos, offs, q, k))

CallPhi3Forward ==
    /\ app.op = "none"
    /\ \E o \in InstancesOf({"Phi3LongRoPEScaledRotaryEmbedding"}), n \in TokenCounts, seed \in QuerySeeds, hasKey \in BOOLEAN :
       \E pos \in Phi3PositionVectors(o, n), offs \in OffsetChoices(n) :
           /\ LET q == TensorOf(seed, n, NumQueryHeads, o.head_size)
                  k == IF hasKey THEN TensorOf(seed + 50, n, NumKvHeads, o.head_size)
                       ELSE NoTensor
              IN Applied("phi3_forward", o, 1, Triples(AddOffsets(pos, offs)), offs, q, k,
                         Phi3Forward(o, pos, offs, q, k))

CallDualChunkForward ==
    /\ app.op = "none"
    /\ \E o \in InstancesOf({"DualChunkRotaryEmbedding"}), n \in TokenCounts, seed \in QuerySeeds, hasKey \in BOOLEAN :
       \E pos \in PositionVectors(o, n), offs \in OffsetChoices(n) :
           /\ LET q == TensorOf(seed, n, NumQueryHeads, o.head_size)
                  k == IF hasKey THEN TensorOf(seed + 50, n, NumKvHeads, o.head_size)
                       ELSE NoTensor
              IN Applied("dual_chunk_forward", o, 1, Triples(AddOffsets(pos, offs)), offs, q, k,
                         DualChunkForward(o, pos, offs, q, k))

CallLlama4VisionForward ==
    /\ app.op = "none"
    /\ \E o \in InstancesOf({"Llama4VisionRotaryEmbedding"}), n \in TokenCounts, seed \in QuerySeeds, hasKey \in BOOLEAN :
           /\ LET q == TensorOf(seed, n, NumQueryHeads, o.head_size)
                  k == IF hasKey THEN TensorOf(seed + 50, n, NumKvHeads, o.head_size)
                       ELSE NoTensor
              IN Applied("llama4_vision_forward", o, 1, <<>>, <<>>, q, k,
                         Llama4VisionForward(o, q, k))

\* the caller takes the tensors; the variant is ready for the next call
ForwardReturns ==
    /\ app.op # "none"
    /\ app' = AppIdle
    /\ UNCHANGED <<registry, objs, thr, ncalls, returned, built, last, res, dec, cache, fcall>>

InitApply == InitRegistry /\ app = AppIdle /\ res = ResIdle /\ dec = DecIdle /\ cache = CacheBuilt
    /\ fcall = NoCall
NextApply ==
    \/ CallForwardNative
    \/ CallMRopeForward
    \/ CallDeepseekForward
    \/ CallPhi3Forward
    \/ CallDualChunkForward
    \/ CallLlama4VisionForward
    \/ ForwardReturns
SpecApply == InitApply /\ [][NextApply]_vars

\* ------------------------------------------------------- resolver calls

\* the token streams of a model: every sequence of 1..MaxStream of its tokens
Streams(alphabet) == UNION {[1..n -> alphabet] : n \in 1..MaxStream}
VlTokens == {"text", image_token_id, video_token_id, vision_start_token_id}
Glm4vTokens == {"text", image_token_id, video_start_token_id, video_end_token_id}
OmniTokens ==
    {"text", audio_token_id, image_token_id, video_token_id, vision_start_token_id,
     vision_end_token_id, audio_start_token_id, audio_end_token_id}

\* well-formed prompts: text, a marker, the placeholders of one item, text
Rep(tok, n) == [i \in 1..n |-> tok]
Prompts(marker, placeholder, counts) ==
    {Rep("text", a) \o marker \o Rep(placeholder, n) \o Rep("text", b) :
        a \in 0..MaxText, b \in 0..MaxText, n \in counts}
VlPrompts == Prompts(<<vision_start_token_id>>, image_token_id, {2, 4})

\* grid metadata (t, h, w) and audio feature lengths handed to the resolver
ImageGrids ==
    {Some(<<>>), Some(<<<<1, 2, 2>>>>), Some(<<<<1, 2, 4>>, <<1, 2, 2>>>>),
     Some(<<<<1, 4, 4>>>>), Some(<<<<2, 2, 2>>>>)}
VideoGrids == {Some(<<>>), Some(<<<<2, 2, 2>>>>)}
OmniMedia ==
    {[image |-> Some(<<>>), video |-> Some(<<>>), audio |-> NoneList],
     [image |-> Some(<<>>), video |-> Some(<<>>), audio |-> Some(<<5>>)],
     [image |-> Some(<<<<1, 2, 4>>>>), video |-> Some(<<>>), audio |-> NoneList],
     [image |-> Some(<<>>), video |-> Some(<<<<2, 2, 2>>>>), audio |-> Some(<<9>>)],
     [image |-> Some(<<<<1, 2, 2>>>>), video |-> Some(<<<<2, 2, 2>>>>),
      audio |-> Some(<<5>>)],
     [image |-> Some(<<<<1, 1, 2>>>>), video |-> Some(<<<<1, 1, 2>>>>),
      audio |-> Some(<<2>>)]}
\* (context_len, seq_len) of a stream of n tokens
Ranges(n) ==
    {<<0, Some(n)>>, <<1, Some(n)>>, <<0, NoneInt>>, <<0, Some(Max2(n - 1, 1))>>}

Resolve(in) ==
    /\ res.op = "none"
    /\ res' = [op |-> "get_input_positions_tensor", in |-> in,
               out |-> GetInputPositionsTensor(in)]
    /\ UNCHANGED <<registry, objs, thr, ncalls, returned, built, last, app, dec, cache, fcall>>

ResolverInput(model_type, tokens, image, video, audio, use_audio_in_video, rng) ==
    [model_type |-> model_type, tokens |-> tokens, image_grid_thw |-> image,
     video_grid_thw |-> video, second_per_grid_ts |-> <<>>,
     audio_feature_lengths |-> audio, use_audio_in_video |-> use_audio_in_video,
     context_len |-> rng[1], seq_len |-> rng[2], spatial_merge_size |-> 2,
     tokens_per_second |-> 1, seconds_per_chunk |-> 1]

CallVlResolver ==
    /\ res.op = "none"
    /\ \E tokens \in Streams(VlTokens) \cup VlPrompts, image \in ImageGrids,
          video \in VideoGrids :
       \E rng \in Ranges(Len(tokens)) :
           Resolve(ResolverInput("vl", tokens, image, video, NoneList, FALSE, rng))

CallGlm4vResolver ==
    /\ res.op = "none"
    /\ \E tokens \in Streams(Glm4vTokens), image \in ImageGrids \cup {NoneList},
          video \in {NoneList, Some(<<>>), Some(<<<<1, 2, 2>>>>)} :
       \E rng \in Ranges(Len(tokens)) :
           Resolve(ResolverInput("glm4v", tokens, image, video, NoneList, FALSE, rng))

CallOmniResolver ==
    /\ res.op = "none"
    /\ \E tokens \in Streams(OmniTokens), m \in OmniMedia, use_audio_in_video \in BOOLEAN :
       \E rng \in Ranges(Len(tokens)) :
           Resolve(ResolverInput("omni", tokens, m.image, m.video, m.audio,
                                 use_audio_in_video, rng))

ResolverReturns ==
    /\ res.op # "none"
    /\ res' = ResIdle
    /\ UNCHANGED <<registry, objs, thr, ncalls, returned, built, last, app, dec, cache, fcall>>

InitResolve == InitRegistry /\ app = AppIdle /\ res = ResIdle /\ dec = DecIdle /\ cache = CacheBuilt
    /\ fcall = NoCall
NextResolve ==
    \/ CallVlResolver
    \/ CallGlm4vResolver
    \/ CallOmniResolver
    \/ ResolverReturns
SpecResolve == InitResolve /\ [][NextResolve]_vars

\* ------------------------------------------------------------ decode steps

\* the prompts that are decoded
DecodePrompts ==
    {ResolverInput("vl", tokens, image, Some(<<>>), NoneList, FALSE, rng) :
        tokens \in VlPrompts, image \in ImageGrids, rng \in {<<0, NoneInt>>, <<1, NoneInt>>}}
    \cup {ResolverInput("glm4v", tokens, NoneList, NoneList, NoneList, FALSE, <<0, Some(n)>>) :
        tokens \in Streams(Glm4vTokens), n \in 1..MaxStream}
    \cup {ResolverInput("omni", tokens, m.image, m.video, m.audio, FALSE, <<0, NoneInt>>) :
        tokens \in Streams({"text", audio_token_id, audio_start_token_id}), m \in OmniMedia}

\* the prompt is resolved once: get_input_positions gives its positions and
\* the delta the request keeps
Prefill ==
    /\ dec.phase = "idle"
    /\ \E in \in DecodePrompts :
        LET out == GetInputPositions(in)
        IN /\ out.err = ""
           /\ dec' = [phase |-> "decode", n |-> Len(in.tokens), prompt |-> out.positions,
                      top |-> TensorMax(Cat(out.blocks)), delta |-> out.delta, k |-> 0,
                      next |-> NoLists]
    /\ UNCHANGED <<registry, objs, thr, ncalls, returned, built, last, app, res, cache, fcall>>

\* decode step k: one new token, get_next_input_positions(delta, n+k, n+k+1)
DecodeStep ==
    /\ dec.phase = "decode"
    /\ dec.k < MaxDecode
    /\ dec' = [dec EXCEPT !.k = @ + 1,
                          !.next = GetNextInputPositions(dec.delta, dec.n + dec.k,
                                                         dec.n + dec.k + 1)]
    /\ UNCHANGED <<registry, objs, thr, ncalls, returned, built, last, app, res, cache, fcall>>

RequestEnds ==
    /\ dec.phase = "decode"
    /\ dec' = DecIdle
    /\ UNCHANGED <<registry, objs, thr, ncalls, returned, built, last, app, res, cache, fcall>>

InitDecode == InitRegistry /\ app = AppIdle /\ res = ResIdle /\ dec = DecIdle /\ cache = CacheBuilt
    /\ fcall = NoCall
NextDecode == Prefill \/ DecodeStep \/ RequestEnds
SpecDecode == InitDecode /\ [][NextDecode]_vars

\* ------------------------------------------------------- cache migration

\* forward_cuda, lines 185-186: the caller compares the placement of the
\* cache with that of its query
CudaCheck(t, device, dtype) ==
    /\ cache.callers[t].pc = "idle"
    /\ device # "xpu:0"
    /\ cache' = [cache EXCEPT !.callers[t] =
                    [pc |-> IF Placement(cache) # <<device, dtype>> THEN "cuda_move"
                            ELSE "kernel",
                     device |-> device, dtype |-> dtype]]
    /\ UNCHANGED <<registry, objs, thr, ncalls, returned, built, last, app, res, dec, fcall>>

\* forward_cuda, lines 187-188: the cache is converted and stored back
CudaMove(t) ==
    /\ cache.callers[t].pc = "cuda_move"
    /\ cache' = [MovedTo(cache, cache.callers[t].device, cache.callers[t].dtype)
                    EXCEPT !.callers[t].pc = "kernel"]
    /\ UNCHANGED <<registry, objs, thr, ncalls, returned, built, last, app, res, dec, fcall>>

\* forward_xpu, lines 211-212: converted and stored back without a comparison
XpuMove(t, dtype) ==
    /\ cache.callers[t].pc = "idle"
    /\ cache' = [MovedTo(cache, "xpu:0", dtype)
                    EXCEPT !.callers[t] = [pc |-> "kernel", device |-> "xpu:0",
                                           dtype |-> dtype]]
    /\ UNCHANGED <<registry, objs, thr, ncalls, returned, built, last, app, res, dec, fcall>>

\* ops.rotary_embedding(...) with self.cos_sin_cache, then the call returns
Kernel(t) ==
    /\ cache.callers[t].pc = "kernel"
    /\ cache' = [cache EXCEPT !.callers[t] = NotCalling]
    /\ UNCHANGED <<registry, objs, thr, ncalls, returned, built, last, app, res, dec, fcall>>

MigrateCheck == \E t \in 1..NumThreads, device \in Devices, dtype \in Dtypes : CudaCheck(t, device, dtype)
MigrateCuda == \E t \in 1..NumThreads : CudaMove(t)
MigrateXpu == \E t \in 1..NumThreads, dtype \in Dtypes : XpuMove(t, dtype)
MigrateKernel == \E t \in 1..NumThreads : Kernel(t)

InitMigrate == InitRegistry /\ app = AppIdle /\ res = ResIdle /\ dec = DecIdle /\ cache = CacheBuilt
    /\ fcall = NoCall
NextMigrate == MigrateCheck \/ MigrateCuda \/ MigrateXpu \/ MigrateKernel
SpecMigrate == InitMigrate /\ [][NextMigrate]_vars

\* ------------------------------------------------------- static helpers

\* one pass of the loop over t_index_split_chunk, lines 1604-1612
UpdatesChunk(cfg, s, t_chunk, grid_h, grid_w, audio_len, t_ntoken_per_chunk) ==
    LET vision_ntoken_per_chunk ==
            (Len(t_chunk) * grid_h * grid_w)
                \div (cfg.spatial_merge_size * cfg.spatial_merge_size)
        audio_chunk_size == Min(t_ntoken_per_chunk, audio_len - s.added_audio_len)
    IN [updates |-> s.updates \o Rep(video_token_id, vision_ntoken_per_chunk)
                       \o Rep(audio_token_id, audio_chunk_size),
        added_audio_len |-> s.added_audio_len + audio_chunk_size]

RECURSIVE UpdatesLoop(_, _, _, _, _, _, _)
UpdatesLoop(cfg, s, chunks, grid_h, grid_w, audio_len, t_ntoken_per_chunk) ==
    IF chunks = <<>> THEN s
    ELSE UpdatesLoop(cfg, UpdatesChunk(cfg, s, Head(chunks), grid_h, grid_w, audio_len,
                                       t_ntoken_per_chunk),
                     Tail(chunks), grid_h, grid_w, audio_len, t_ntoken_per_chunk)

\* a faulty variant of OmniGetUpdatesUseAudioInVideo: the video tokens and
\* the audio tokens as two contiguous blocks
OmniGetUpdatesTwoBlocks(cfg, audio_len, video_grid_thw, video_second_per_grid_t) ==
    <<audio_start_token_id>>
        \o Rep(video_token_id,
               (video_grid_thw[1] * video_grid_thw[2] * video_grid_thw[3])
                   \div (cfg.spatial_merge_size * cfg.spatial_merge_size))
        \o Rep(audio_token_id, audio_len) \o <<audio_end_token_id>>

\* MRotaryEmbedding.omni_get_updates_use_audio_in_video, lines 1567-1617
OmniGetUpdatesUseAudioInVideo(cfg, audio_len, video_grid_thw, video_second_per_grid_t) ==
    LET t_ntoken_per_chunk == cfg.tokens_per_second * cfg.seconds_per_chunk
        t_index == TIndex(video_grid_thw[1], video_second_per_grid_t, cfg.tokens_per_second)
        t_index_split_chunk == SplitListIntoRanges(t_index, t_ntoken_per_chunk)
        s == UpdatesLoop(cfg, [updates |-> <<audio_start_token_id>>, added_audio_len |-> 0],
                         t_index_split_chunk, video_grid_thw[2], video_grid_thw[3],
                         audio_len, t_ntoken_per_chunk)
        rest == IF s.added_audio_len < audio_len
                THEN Rep(audio_token_id, audio_len - s.added_audio_len) ELSE <<>>
    IN s.updates \o rest \o <<audio_end_token_id>>

\* thinker_config: chunks of one or of two time indices
ThinkerConfigs ==
    {[tokens_per_second |-> 1, seconds_per_chunk |-> c, spatial_merge_size |-> 2] :
        c \in {1, 2}}
\* video grids (t, h, w) whose h*w is a multiple of spatial_merge_size squared
UpdateGrids == {<<1, 2, 2>>, <<2, 2, 2>>, <<2, 2, 4>>, <<3, 2, 2>>, <<3, 4, 4>>}

CallOmniGetUpdates ==
    /\ fcall.op = "none"
    /\ \E cfg \in ThinkerConfigs, audio_len \in 0..MaxAudioLen, grid \in UpdateGrids,
          second_per_grid_t \in {1, 2} :
          fcall' = [op |-> "omni_get_updates_use_audio_in_video",
                    in |-> [thinker_config |-> cfg, audio_len |-> audio_len,
                            video_grid_thw |-> grid,
                            video_second_per_grid_t |-> second_per_grid_t],
                    out |-> OmniGetUpdatesUseAudioInVideo(cfg, audio_len, grid,
                                                          second_per_grid_t)]
    /\ UNCHANGED <<registry, objs, thr, ncalls, returned, built, last, app, res, dec, cache>>

\* deep_gemm_moe.py, _valid_deep_gemm_shape, lines 36-38; align is what
\* deep_gemm_block_shape()[0] returns, the alignment of the installed library
ValidDeepGemmShape(align, M, N, K) == align <= M /\ N % align = 0 /\ K % align = 0

CallValidDeepGemmShape ==
    /\ fcall.op = "none"
    /\ \E align \in {2, 4}, M \in 0..MaxDim, N \in 0..MaxDim, K \in 0..MaxDim :
          fcall' = [op |-> "_valid_deep_gemm_shape",
                    in |-> [align |-> align, M |-> M, N |-> N, K |-> K],
                    out |-> ValidDeepGemmShape(align, M, N, K)]
    /\ UNCHANGED <<registry, objs, thr, ncalls, returned, built, last, app, res, dec, cache>>

\* out[:, start:stop] of an array of w columns: the columns the slice selects
SliceStart(w, i) == IF i < 0 THEN Max2(i + w, 0) ELSE Min(i, w)
SliceColumnsOf(w, start, stop) ==
    {c \in 1..w : SliceStart(w, start) < c /\ c <= SliceStart(w, stop)}

\* a faulty variant of GetNextInputPositionsTensor: the row is filled from its
\* first column, whatever out_offset is
GetNextInputPositionsTensorFromZero(out, out_offset, mrope_position_delta, context_len, num_new_tokens) ==
    [err |-> "",
     out |-> [r \in 1..Len(out) |-> [c \in 1..Len(out[r]) |->
                 IF c <= num_new_tokens THEN mrope_position_delta + context_len + c - 1
                 ELSE out[r][c]]]]
\* MRotaryEmbedding.get_next_input_positions_tensor, lines 1557-1565: values
\* is assigned to the slice of every row; numpy accepts it when the slice has
\* as many columns as values, or when values has one element
GetNextInputPositionsTensor(out, out_offset, mrope_position_delta, context_len, num_new_tokens) ==
    LET values == Range(mrope_position_delta + context_len,
                        mrope_position_delta + context_len + num_new_tokens)
        w == Len(out[1])
        cols == SliceColumnsOf(w, out_offset, out_offset + num_new_tokens)
        first == SliceStart(w, out_offset)
    IN IF Cardinality(cols) # Len(values) /\ Len(values) # 1
       THEN [err |-> "ValueError", out |-> out]
       ELSE [err |-> "",
             out |-> [r \in 1..Len(out) |-> [c \in 1..w |->
                         IF c \in cols
                         THEN IF Len(values) = 1 THEN values[1] ELSE values[c - first]
                         ELSE out[r][c]]]]

\* the arrays handed in: three rows of MaxCols columns, filled by earlier steps
OutArrays == {[r \in 1..3 |-> [c \in 1..MaxCols |-> fill + c]] : fill \in {40, 70}}

CallGetNextInputPositionsTensor ==
    /\ fcall.op = "none"
    /\ \E out \in OutArrays, out_offset \in (-1)..(MaxCols + 1), delta \in {-1, 0, 2},
          context_len \in {1, 2}, num_new_tokens \in 0..MaxCols :
          fcall' = [op |-> "get_next_input_positions_tensor",
                    in |-> [out |-> out, out_offset |-> out_offset,
                            mrope_position_delta |-> delta, context_len |-> context_len,
                            num_new_tokens |-> num_new_tokens],
                    out |-> GetNextInputPositionsTensor(out, out_offset, delta, context_len,
                                                        num_new_tokens)]
    /\ UNCHANGED <<registry, objs, thr, ncalls, returned, built, last, app, res, dec, cache>>

\* the caller takes the result
HelperReturns ==
    /\ fcall.op # "none"
    /\ fcall' = NoCall
    /\ UNCHANGED <<registry, objs, thr, ncalls, returned, built, last, app, res, dec, cache>>

InitHelpers ==
    /\ InitRegistry /\ app = AppIdle /\ res = ResIdle /\ dec = DecIdle /\ cache = CacheBuilt
    /\ fcall = NoCall
NextHelpers ==
    \/ CallOmniGetUpdates
    \/ CallValidDeepGemmShape
    \/ CallGetNextInputPositionsTensor
    \/ HelperReturns
SpecHelpers == InitHelpers /\ [][NextHelpers]_vars

\* ------------------------------------------------------- registry: claims

Done(t) == thr[t].pc = "done"
Returned(t) == Done(t) /\ thr[t].err = ""
PairsOf(h, a) == {p \in h : p[1] = a}

\* C1: get_rope calls made one after the other with identical arguments
\* (list-valued scaling fields included) all return one and the same object,
\* and only the first of them constructs anything.
C1_IdenticalCallsSameObject ==
    \A a \in Configs :
        /\ Cardinality(PairsOf(returned, a)) <= 1
        /\ Cardinality(PairsOf(built, a)) <= 1

\* a second call with list-valued short_factor / long_factor has found the
\* object of the first
C1_Witness ==
    /\ Done(1) /\ thr[1].hit
    /\ thr[1].args = Scaled(D_longrope)
    /\ last.args = Scaled(D_longrope) /\ last.result = thr[1].result
    /\ PairsOf(built, Scaled(D_longrope)) = {<<Scaled(D_longrope), thr[1].result>>}

\* C2: threads calling get_rope concurrently with one configuration never
\* hold distinct objects for one key.
C2_RacingCallersSameInstance ==
    \A p \in returned : \A q \in returned :
        KeyOf(p[1]) = KeyOf(q[1]) => p[2] = q[2]

\* the fields C3 names are equal and the scaling descriptors are equal as
\* mappings; every other argument is the same
EqualFields(a, b) ==
    /\ a.head_size = b.head_size /\ a.rotary_dim = b.rotary_dim
    /\ a.max_position = b.max_position /\ a.base = b.base
    /\ a.is_neox_style = b.is_neox_style /\ a.dtype = b.dtype
    /\ a.hasScaling = b.hasScaling
    /\ Items(a.rope_scaling) = Items(b.rope_scaling)
    /\ a.prf = b.prf /\ a.hasDual = b.hasDual /\ a.dual = b.dual

\* C3: two calls with equal fields and scaling descriptors equal as mappings,
\* whatever the insertion order of the keys, return the same object.
C3_EqualMappingsSameInstance ==
    \A p \in returned : \A q \in returned :
        EqualFields(p[1], q[1]) => p[2] = q[2]

SupportedTypes ==
    {"llama3", "mllama4", "default", "linear", "ntk", "dynamic", "yarn",
     "deepseek_yarn", "longrope"}
UnknownType(a) ==
    /\ a.hasScaling /\ Has(a.rope_scaling, "rope_type")
    /\ Get(a.rope_scaling, "rope_type").s \notin SupportedTypes
RaisedConfigError(t) ==
    /\ thr[t].err = "ValueError" /\ thr[t].result = 0
    /\ PairsOf(returned, thr[t].args) = {}

ConfigError(a) ==
    /\ ~a.hasDual /\ a.hasScaling /\ Has(a.rope_scaling, "rope_type")
    /\ LET ty == Get(a.rope_scaling, "rope_type").s IN
       \/ ty = "dynamic" /\ ~Has(a.rope_scaling, "alpha")
                         /\ ~Has(a.rope_scaling, "factor")
       \/ ty = "longrope" /\ a.is_neox_style = FALSE

\* C5: with no dual-chunk configuration, 'dynamic' scaling with neither 'alpha'
\* nor 'factor' and 'longrope' with is_neox_style false raise inside get_rope,
\* leave the registry as it was when the call began, and raise again on every
\* identical later call.
C5_ConfigErrorStoresNothing ==
    Done(1) /\ ConfigError(thr[1].args) =>
        /\ RaisedConfigError(1)
        /\ registry = thr[1].reg0
        /\ thr[1].key \notin DOMAIN registry
        /\ ~thr[1].hit

\* the second of two identical failing calls has raised again
C5_Witness ==
    /\ Done(1) /\ thr[1].err = "ValueError"
    /\ thr[1].args = [Scaled(D_longrope) EXCEPT !.is_neox_style = FALSE]
    /\ last.args = thr[1].args /\ last.err = "ValueError"

\* the table size the scheme of a is documented to have
Factor(a) == Get(a.rope_scaling, "factor").v
OrigMaxOf(a) == Get(a.rope_scaling, "original_max_position_embeddings").v[1]
RoundedUp(n, x) == CHOOSE r \in 0..(n * x[1]) : r * x[2] >= n * x[1] /\ (r - 1) * x[2] < n * x[1]
HasFormula(a) ==
    /\ ~a.hasDual
    /\ \/ ~a.hasScaling \/ a.rope_scaling = <<>>
       \/ Get(a.rope_scaling, "rope_type").s \in
              {"default", "llama3", "yarn", "deepseek_yarn", "longrope"}
       \/ Get(a.rope_scaling, "rope_type").s = "dynamic" /\ ~Has(a.rope_scaling, "alpha")
       \/ Get(a.rope_scaling, "rope_type").s = "linear" /\ Get(a.rope_scaling, "factor").t = "float"
ExpectedRows(a) ==
    IF ~a.hasScaling \/ a.rope_scaling = <<>> THEN a.max_position
    ELSE LET ty == Get(a.rope_scaling, "rope_type").s IN
         CASE ty = "default" ->
                IF Has(a.rope_scaling, "mrope_section") THEN 4 * a.max_position
                ELSE a.max_position
           [] ty = "llama3" -> a.max_position
           [] ty \in {"dynamic", "linear"} -> RoundedUp(a.max_position, Factor(a))
           [] ty \in {"yarn", "deepseek_yarn"} -> RoundedUp(OrigMaxOf(a), Factor(a))
           [] ty = "longrope" -> OrigMaxOf(a) + a.max_position

\* C9: the cos/sin table built at construction has the row count of its
\* scheme: max_position (none, default, llama3), max_position * factor (dynamic
\* NTK with 'factor', linear with one factor), original_max_position_embeddings
\* * factor (yarn, deepseek_yarn), original_max_position_embeddings +
\* max_position (longrope), 4 * max_position (mrope); a non-integer product is
\* rounded up.
C9_RowCountFormula ==
    \A p \in built : HasFormula(p[1]) => objs[p[2]].rows = ExpectedRows(p[1])

\* dynamic NTK with factor 3/2 over 3 positions: 4.5 rounds up to 5 rows; and
\* the longrope table has 2 + 3 rows
C9_Witness ==
    /\ \E p \in built : p[1] = Scaled(D_dynamic_factor) /\ objs[p[2]].rows = 5
    /\ \E p \in built : p[1] = Scaled(D_longrope) /\ objs[p[2]].rows = 5

\* the linear-scaling instances that were built, their factors pairwise distinct
LinearBuilt ==
    {objs[p[2]] : p \in {q \in built : objs[q[2]].cls = "LinearScalingRotaryEmbedding"}}
DistinctFactors(o) ==
    \A i, j \in 1..Len(o.scaling_factors) :
        o.scaling_factors[i] = o.scaling_factors[j] => i = j
SubTableRows(o, i) == RoundedUp(o.max_position_embeddings, o.scaling_factors[i])

\* C18: a linear-scaling table with distinct factors f_1..f_n is the sub-tables
\* one after the other: sub-table i has max_position * f_i rows (rounded up),
\* scaling_factor_to_offset maps f_i to the sum of the row counts before it,
\* so the regions are disjoint, in configuration order and tile the table, and
\* row offset_i + p holds position p under factor f_i, that is t = p / f_i.
C18_LinearSubTables ==
    \A o \in LinearBuilt : DistinctFactors(o) =>
        LET fs == o.scaling_factors
            off(i) == ScalingFactorToOffset(o, fs[i])
        IN /\ off(1) = 0
           /\ \A i \in 1..(Len(fs) - 1) : off(i + 1) = off(i) + SubTableRows(o, i)
           /\ off(Len(fs)) + SubTableRows(o, Len(fs)) = o.rows
           /\ \A i \in 1..Len(fs) : \A p \in 0..(SubTableRows(o, i) - 1) :
                 LET t == LinearCacheT(o, off(i) + p)
                 IN t[1] * fs[i][1] = p * fs[i][2] * t[2]

\* factors (2, 1, 3) over 3 positions: sub-tables of 6, 3 and 9 rows at
\* offsets 0, 6 and 9 of a table of 18 rows
C18_Witness ==
    \E o \in LinearBuilt :
        /\ o.scaling_factors = <<(<<2, 1>>), <<1, 1>>, <<3, 1>>>>
        /\ o.rows = 18
        /\ ScalingFactorToOffset(o, <<1, 1>>) = 6 /\ ScalingFactorToOffset(o, <<3, 1>>) = 9
        /\ LinearCacheT(o, 10) = <<1, 3>>

\* C26: the linear-scaling variant keeps the cos/sin cache of scaling factor 1
\* at all times: whatever factors it is constructed with,
\* scaling_factor_to_offset has an entry for 1.0 and the table holds at that
\* offset the sub-table of factor 1, row p for position p.
C26_FactorOneAlwaysKept ==
    \A o \in LinearBuilt :
        /\ \E f \in ScalingFactorToOffsetKeys(o) : f[1] = f[2]
        /\ \A p \in 0..(o.max_position_embeddings - 1) :
              LET t == LinearCacheT(o, ScalingFactorToOffset(o, <<1, 1>>) + p)
              IN t[1] = p * t[2]

\* the variants that were built whose table has the layout cos | sin of one
\* angle per row and column
HalfLayoutBuilt ==
    {objs[p[2]] : p \in {q \in built : objs[q[2]].cls \notin
        {"LinearScalingRotaryEmbedding", "DualChunkRotaryEmbedding",
         "Llama4VisionRotaryEmbedding"}}}
TableEntries(o) == (0..(o.rows - 1)) \X (1..(o.rotary_dim \div 2))
\* the variants that multiply their table by a magnitude: YaRN and
\* Deepseek-YaRN with a factor above 1, longrope with max_position above
\* original_max_position_embeddings
Magnified(o) ==
    \/ /\ o.cls \in {"YaRNScalingRotaryEmbedding", "DeepseekScalingRotaryEmbedding"}
       /\ o.scaling_factor[1] > o.scaling_factor[2]
    \/ /\ o.cls = "Phi3LongRoPEScaledRotaryEmbedding"
       /\ o.max_position_embeddings > o.original_max_position_embeddings

\* C27 as stated: in every row of every cos/sin table each (cos, sin) column
\* pair satisfies cos^2 + sin^2 = 1, the YaRN, Deepseek-YaRN and longrope
\* tables included.
C27_EveryTableUnitNorm ==
    \A o \in HalfLayoutBuilt : \A e \in TableEntries(o) :
        RatEq(EntryNormSquared(o, e[1], e[2]), <<1, 1>>)

\* C27, amended: in every row of a cos/sin table each (cos, sin) column pair
\* satisfies cos^2 + sin^2 = m^2 with one m for the whole table. m is 1, and
\* apply a pure rotation, for the unscaled, mrope, llama3, NTK and dynamic NTK
\* tables; the YaRN and Deepseek-YaRN tables with a factor above 1 and the
\* longrope table with max_position above original_max_position_embeddings
\* are multiplied by mscale, so there m > 1.
C27_TablesCarryMscale ==
    \A o \in HalfLayoutBuilt : \A e \in TableEntries(o) :
        /\ RatEq(EntryNormSquared(o, e[1], e[2]), EntryNormSquared(o, 0, 1))
        /\ IF Magnified(o) THEN RatLess(<<1, 1>>, EntryNormSquared(o, e[1], e[2]))
           ELSE RatEq(EntryNormSquared(o, e[1], e[2]), <<1, 1>>)

\* a YaRN table of factor 3/2 and an unscaled table have been built: the
\* entries of the first have a norm above 1, those of the second norm 1
C27_Witness ==
    /\ \E o \in HalfLayoutBuilt :
          /\ o.cls = "YaRNScalingRotaryEmbedding" /\ o.scaling_factor = <<3, 2>>
          /\ RatLess(<<1, 1>>, EntryNormSquared(o, o.rows - 1, 1))
    /\ \E o \in HalfLayoutBuilt :
          /\ o.cls = "RotaryEmbedding"
          /\ RatEq(EntryNormSquared(o, o.rows - 1, 1), <<1, 1>>)

\* -------------------------------------------------------- forward: claims

Called == app.op # "none"
Succeeded == Called /\ app.out.err = ""
PartialRotary == app.o.rotary_dim < app.o.head_size

\* the heads of token i of a returned tensor: the dual-chunk variant returns
\* its heads flattened, the query five copies wide
HeadAt(flat, hs, n) == SubSeq(flat, (n - 1) * hs + 1, n * hs)
OutHeads(x, i, heads) ==
    IF app.op = "dual_chunk_forward"
    THEN [n \in 1..(Len(x[i]) \div app.o.head_size) |-> HeadAt(x[i], app.o.head_size, n)]
    ELSE x[i]
\* the input head an output head was made from
InHead(x, i, n) == x[i][((n - 1) % Len(x[i])) + 1]

TailKept(in, out) ==
    \A i \in 1..Len(in) :
        LET oh == OutHeads(out, i, Len(in[i])) IN
        \A n \in 1..Len(oh) :
            PassSlice(oh[n], app.o.rotary_dim) = PassSlice(InHead(in, i, n), app.o.rotary_dim)

\* C6 as stated: for every variant, with rotary_dim < head_size the elements
\* [rotary_dim, head_size) of every head of the returned query and key are the
\* input's; in each of the five copies for the dual-chunk variant.
C6_TailPassesThroughEveryVariant ==
    Succeeded /\ PartialRotary =>
        TailKept(app.query, app.out.q) /\ TailKept(app.key, app.out.k)

\* C6, amended: the same for every variant but the 2-D vision variant
\* (Llama4VisionRotaryEmbedding), which rotates every pair of the head.
C6_TailPassesThrough ==
    Succeeded /\ PartialRotary /\ app.op # "llama4_vision_forward" =>
        TailKept(app.query, app.out.q) /\ TailKept(app.key, app.out.k)

\* a dual-chunk call with rotary_dim 2 of head_size 4: five copies of two
\* heads, whose rotary slices changed
C6_Witness ==
    /\ Succeeded /\ PartialRotary /\ app.op = "dual_chunk_forward"
    /\ Len(app.out.q[1]) = 5 * NumQueryHeads * app.o.head_size
    /\ \E n \in 1..(5 * NumQueryHeads) :
          RotSlice(HeadAt(app.out.q[1], app.o.head_size, n), app.o.rotary_dim)
              # RotSlice(InHead(app.query, 1, n), app.o.rotary_dim)

\* every position looked up is a row of the table
AxesUsed == IF app.ndim = 2 THEN 1..3 ELSE 1..1
TableRows == IF app.op = "dual_chunk_forward" THEN DualTableRows(app.o, "k") ELSE app.o.rows
InRange ==
    \A i \in 1..Len(app.positions) : \A x \in AxesUsed :
        0 <= app.positions[i][x] /\ app.positions[i][x] < TableRows

\* C7 as stated: for every variant, forward with key None transforms the query
\* and returns None for the key, without raising.
C7_KeyMayBeAbsentEveryVariant ==
    Called /\ app.key = NoTensor /\ InRange =>
        app.out.err = "" /\ app.out.k = NoTensor /\ app.out.q # NoTensor

\* C7, amended: key None is accepted by RotaryEmbedding.forward_native, which
\* rotates the query as it does with a key and returns None for the key; the
\* forward methods of MRotaryEmbedding, DeepseekScalingRotaryEmbedding,
\* Phi3LongRoPEScaledRotaryEmbedding, Llama4VisionRotaryEmbedding and
\* DualChunkRotaryEmbedding raise on it.
C7_KeyMayBeAbsent ==
    Called /\ app.key = NoTensor /\ InRange =>
        IF app.op = "forward_native"
        THEN /\ app.out.err = "" /\ app.out.k = NoTensor
             /\ app.out.q = NativeRotate(app.o, app.out.rows, app.query)
        ELSE app.out.err \in {"AssertionError", "AttributeError"}

C7_Witness ==
    /\ Succeeded /\ app.op = "forward_native" /\ app.key = NoTensor
    /\ app.out.k = NoTensor /\ app.out.q # NoTensor /\ Len(app.positions) = 2

\* C8: a forward call in which some position (offsets added) is negative or
\* not below the row count of the table raises.
C8_OutOfRangePositionRaises ==
    Called /\ ~InRange => app.out.err # ""

DualApplied == Succeeded /\ app.op = "dual_chunk_forward"
\* the width of a token of the query as it was passed
QueryWidth == Len(app.query[1]) * app.o.head_size
\* copy j of token i of the returned query
QueryCopy(i, j) == SubSeq(app.out.q[i], (j - 1) * QueryWidth + 1, j * QueryWidth)
\* the heads of a token rotated by the angles of position t
RotatedBy(tok, t) ==
    Flatten(RotateHeadsBySinCos(tok, CosSinRow(t, InvFreq(app.o.rotary_dim)),
                                app.o.rotary_dim, app.o.is_neox_style))
\* the position whose angles copy j of a token at position p is rotated by
CopyAngle(j, p) ==
    LET r == p % ChunkLen(app.o)
    IN CASE j = 1 -> r
         [] j = 2 -> Min(r + ChunkLen(app.o), app.o.chunk_size)
         [] j = 3 -> Min(2 * ChunkLen(app.o) - 1, app.o.chunk_size)
         [] j = 4 -> r + ChunkLen(app.o)
         [] j = 5 -> r + app.o.chunk_size
DualTables == {"q", "qc", "k", "qc_no_clamp", "q_inter"}
\* copy j is, for every token, the query rotated by some row of table tbl
LookedUpIn(j, tbl) ==
    \A i \in 1..Len(app.query) :
        \E r \in 0..(DualTableRows(app.o, tbl) - 1) :
            QueryCopy(i, j) = DualApplyRotaryEmbedding(app.o, DualCacheRow(app.o, tbl, r),
                                                       app.query[i])

Phi3RotatedWith(factors, pos, x) ==
    [i \in 1..Len(pos) |->
        RotateHeadsBySinCos(x[i], CosSinRow(pos[i], Phi3InvFreq(factors, app.o.rotary_dim)),
                            app.o.rotary_dim, TRUE)]
Phi3Batch == [i \in 1..Len(app.positions) |-> app.positions[i][1]]

\* C22: longrope row selection. For a batch (offsets None, every position a
\* position of the model) in which no position exceeds
\* original_max_position_embeddings every position p is rotated with row p of
\* the short-factor table, and for a batch in which some position exceeds it
\* every position p is rotated with row p of the long-factor table.
C22_LongRopeRowSelection ==
    /\ Called /\ app.op = "phi3_forward" /\ app.key # NoTensor /\ app.offsets = <<>>
    /\ \A i \in 1..Len(Phi3Batch) :
          0 <= Phi3Batch[i] /\ Phi3Batch[i] < app.o.max_position_embeddings
    => LET k == app.o.original_max_position_embeddings
           factors == IF \E i \in 1..Len(Phi3Batch) : Phi3Batch[i] > k
                      THEN app.o.long_factor ELSE app.o.short_factor
       IN /\ app.out.err = ""
          /\ app.out.q = Phi3RotatedWith(factors, Phi3Batch, app.query)
          /\ app.out.k = Phi3RotatedWith(factors, Phi3Batch, app.key)

MRopeApplied == Succeeded /\ app.op = "mrope_forward"
SameOnAllAxes ==
    \A i \in 1..Len(app.positions) :
        app.positions[i][1] = app.positions[i][2] /\ app.positions[i][2] = app.positions[i][3]
\* the axis whose section holds frequency column j: section a holds the
\* columns after the first a-1 sections
AxisOfColumn(j) ==
    CHOOSE a \in 1..3 :
        /\ SumSeq(SubSeq(app.o.mrope_section, 1, a - 1)) < j
        /\ j <= SumSeq(SubSeq(app.o.mrope_section, 1, a))
\* cos and sin of frequency column j at position p
ColumnAt(j, p) ==
    LET row == RotaryCacheRow(app.o, p) IN <<CosOf(row)[j], SinOf(row)[j]>>
\* the row token i is rotated with when section a is read at axis a's position
SectionRow(i) ==
    LET h == app.o.rotary_dim \div 2
    IN [j \in 1..h |-> ColumnAt(j, app.positions[i][AxisOfColumn(j)])[1]]
           \o [j \in 1..h |-> ColumnAt(j, app.positions[i][AxisOfColumn(j)])[2]]
RotatedWithSections(x) ==
    [i \in 1..Len(app.positions) |->
        RotateHeads(x[i], SectionRow(i), app.o.rotary_dim, app.o.is_neox_style)]

\* C24: on the 3-axis path, with sections summing to rotary_dim/2, the
\* frequency columns of section i are taken from the row indexed by axis i's
\* position; so with the same position sequence on all three axes the
\* rotated query and key equal those of the 1-D call for that sequence.
C24_ThreeAxisRefinesOneAxis ==
    MRopeApplied /\ app.ndim = 2 /\ InRange =>
        /\ SumSeq(app.o.mrope_section) = app.o.rotary_dim \div 2
        /\ app.out.q = RotatedWithSections(app.query)
        /\ app.out.k = RotatedWithSections(app.key)
        /\ SameOnAllAxes =>
              LET one == MRopeForward(app.o, 1, app.positions, app.query, app.key)
              IN /\ one.err = ""
                 /\ app.out.q = one.q /\ app.out.k = one.k
                 /\ app.out.q = NativeRotate(app.o, app.out.rows, app.query)

\* a 3-axis call of two tokens with the same position on the three axes, on
\* the variant with sections (1, 1, 1): the query comes back rotated
C24_Witness ==
    /\ MRopeApplied /\ app.ndim = 2 /\ InRange /\ SameOnAllAxes
    /\ app.o.mrope_section = <<1, 1, 1>>
    /\ Len(app.positions) = 2 /\ app.positions[2][1] = 1
    /\ app.out.q # app.query

\* ------------------------------------------------------- resolver: claims

Resolving == res.op # "none"
Placeholders == {image_token_id, video_token_id, audio_token_id}
NoSentinel == \A i \in 1..Len(res.in.tokens) : res.in.tokens[i] \notin Placeholders
FullRange == res.in.context_len = 0 /\ res.in.seq_len = Some(Len(res.in.tokens))

\* C10: on a non-empty stream holding no image, video or audio placeholder
\* token, each resolver called with context_len = 0 and seq_len = the token
\* count returns the positions 0..n-1 on each of the three axes and delta 0.
C10_NoSentinelResolvesFlat ==
    Resolving /\ NoSentinel /\ FullRange =>
        /\ res.out.err = ""
        /\ res.out.positions = Arange3(Len(res.in.tokens), 0)
        /\ res.out.delta = 0

\* text tokens, the vision-start marker, the n placeholders of the first
\* image of the metadata, text tokens
VisionTokens(g, m) == g[1] * (g[2] \div m) * (g[3] \div m)
FirstImage == res.in.image_grid_thw.v[1]
ImageSeqlen == VisionTokens(FirstImage, res.in.spatial_merge_size)
OneImagePrompt ==
    /\ Resolving /\ res.in.model_type = "vl" /\ FullRange
    /\ res.in.image_grid_thw.v # <<>>
    /\ ImageSeqlen > 0
    /\ \E a \in 0..MaxText, b \in 0..MaxText :
          res.in.tokens = Rep("text", a) \o <<vision_start_token_id>>
                              \o Rep(image_token_id, ImageSeqlen) \o Rep("text", b)
\* the text before the image, marker included, takes 0..s-1
ImageStart == CHOOSE s \in 1..Len(res.in.tokens) : res.in.tokens[s] = vision_start_token_id
\* the cell (i, j, k) of the c-th image token, row-major
CellOf(c) ==
    LET gh == FirstImage[2] \div res.in.spatial_merge_size
        gw == FirstImage[3] \div res.in.spatial_merge_size
    IN <<(c - 1) \div (gh * gw), ((c - 1) % (gh * gw)) \div gw, (c - 1) % gw>>
\* the positions the prompt gets when the time index of an image cell
\* (i, j, k) is s + timeOf(i)
ImagePromptPositions(timeStep) ==
    LET s == ImageStart
        n == ImageSeqlen
        image == [c \in 1..n |-> <<s + timeStep * CellOf(c)[1], s + CellOf(c)[2],
                                   s + CellOf(c)[3]>>]
    IN Arange3(s, 0) \o image
           \o Arange3(Len(res.in.tokens) - s - n, TensorMax(image) + 1)

\* C11 as stated: the image token at grid cell (i, j, k) gets (s+i, s+j, s+k),
\* row-major, and the text after the image resumes at the block's largest
\* index plus 1.
C11_ImageCellsCountTime ==
    OneImagePrompt => res.out.err = "" /\ res.out.positions = ImagePromptPositions(1)

\* C11, amended: an image gets t*(h div m)*(w div m) positions in row-major
\* order, the token at grid cell (i, j, k) getting (s, s+j, s+k): the time
\* index of every cell of an image is s, whatever its frame i; the text after
\* the image resumes on all three axes at the block's largest index plus 1.
C11_ImageCells ==
    OneImagePrompt => res.out.err = "" /\ res.out.positions = ImagePromptPositions(0)

\* 2 text tokens (the second the vision-start marker), an image of grid
\* (1, 4, 4) and one more text token
C11_Witness ==
    /\ OneImagePrompt /\ FirstImage = <<1, 4, 4>> /\ ImageStart = 2
    /\ res.out.positions =
          <<<<0, 0, 0>>, <<1, 1, 1>>, <<2, 2, 2>>, <<2, 2, 3>>, <<2, 3, 2>>, <<2, 3, 3>>,
            <<4, 4, 4>>>>

\* the largest index any token of the whole prompt got, on any axis
WholePromptMax == TensorMax(Cat(res.out.blocks))

\* C12: for every resolver variant and every context_len and seq_len the
\* returned delta is the largest index assigned to any token of the whole
\* prompt plus 1 minus the number of prompt tokens.
C12_DeltaFromWholePrompt ==
    Resolving /\ res.out.err = "" =>
        res.out.delta = WholePromptMax + 1 - Len(res.in.tokens)

\* the maximal runs of consecutive placeholders tok in the stream
Runs(tokens, tok) ==
    Cardinality({i \in 1..Len(tokens) : tokens[i] = tok /\ (i = 1 \/ tokens[i - 1] # tok)})
Groups(tokens, key) ==
    LET g == InputTypeGroup(tokens) IN Cardinality({i \in 1..Len(g) : g[i].key = key})
ImageRuns ==
    IF res.in.model_type = "glm4v" THEN Groups(res.in.tokens, "image")
    ELSE Runs(res.in.tokens, image_token_id)
VideoRuns ==
    IF res.in.model_type = "glm4v" THEN Groups(res.in.tokens, "video")
    ELSE Runs(res.in.tokens, video_token_id)

\* C14: whenever the number of image (video) placeholder runs of the stream
\* differs from the number of image (video) grid entries supplied, in either
\* direction, the VL and GLM4V resolvers raise instead of returning positions.
C14_CountMismatchRaises ==
    /\ Resolving /\ res.in.model_type \in {"vl", "glm4v"}
    /\ \/ ImageRuns # Len(res.in.image_grid_thw.v)
       \/ VideoRuns # Len(res.in.video_grid_thw.v)
    => res.out.err # ""

\* the lengths of the placeholder runs of one modality, in stream order
TokenTypes == IF res.in.model_type = "glm4v" THEN InputTokenType(res.in.tokens) ELSE res.in.tokens
RunLens(key) ==
    LET g == SelectSeq(GroupRuns(TokenTypes, 1), LAMBDA x : x.key = key)
    IN [i \in 1..Len(g) |-> g[i].end_index - g[i].start_index]
\* the placeholders each grid entry (audio feature length) yields
GridYields(grids) == [i \in 1..Len(grids) |-> VisionTokens(grids[i], res.in.spatial_merge_size)]
AudioYields(lengths) == [i \in 1..Len(lengths) |-> PlaceNum(lengths[i])]
\* every run has exactly the placeholders its metadata entry yields
RunsMatchMetadata ==
    /\ RunLens(image_token_id) = GridYields(res.in.image_grid_thw.v)
    /\ RunLens(video_token_id) = GridYields(res.in.video_grid_thw.v)
    /\ res.in.model_type = "omni" =>
           RunLens(audio_token_id) = AudioYields(res.in.audio_feature_lengths.v)
WholeRange ==
    /\ res.in.context_len = 0
    /\ res.in.seq_len.some => res.in.seq_len.v = Len(res.in.tokens)

\* C15: over the full range, on a stream whose every placeholder run has
\* exactly as many tokens as its grid entry (audio feature length) yields,
\* every resolver returns one column of three indices per token.
C15_OneColumnPerToken ==
    Resolving /\ WholeRange /\ RunsMatchMetadata =>
        /\ res.out.err = ""
        /\ Len(res.out.positions) = Len(res.in.tokens)
        /\ res.out.positions = Cat(res.out.blocks)
        /\ \A c \in 1..Len(res.out.positions) : Len(res.out.positions[c]) = 3

\* one plus the largest index of the tokens before block k, 0 before the first
StartOf(k) ==
    LET earlier == Cat(SubSeq(res.out.blocks, 1, k - 1))
    IN IF earlier = <<>> THEN 0 ELSE TensorMax(earlier) + 1
\* block k starts on all three axes at StartOf(k) and has no index below it
StartsAfterEarlier(k) ==
    LET b == res.out.blocks[k]
    IN b # <<>> =>
          /\ b[1] = <<StartOf(k), StartOf(k), StartOf(k)>>
          /\ \A c \in 1..Len(b) : \A axis \in 1..3 : b[c][axis] >= StartOf(k)

\* C19 as stated: in every resolver variant, use_audio_in_video included, each
\* new block starts at one plus the largest index of any earlier token.
C19_BlocksStartAfterEarlierAlways ==
    Resolving /\ res.out.err = "" =>
        \A k \in 1..Len(res.out.blocks) : StartsAfterEarlier(k)

\* C19, amended: in every resolver variant without use_audio_in_video each new
\* block (text run, image, video or audio block) starts at one plus the
\* largest index assigned on any axis to any earlier token, so every index of
\* a block is above every index of every earlier block. With
\* use_audio_in_video the omni resolver places some blocks on positions
\* already used.
C19_BlocksStartAfterEarlier ==
    Resolving /\ res.out.err = "" /\ ~res.in.use_audio_in_video =>
        \A k \in 1..Len(res.out.blocks) : StartsAfterEarlier(k)

\* an omni prompt of an audio-start marker and an audio block of two tokens
C19_Witness ==
    /\ Resolving /\ res.out.err = "" /\ ~res.in.use_audio_in_video
    /\ res.in.model_type = "omni"
    /\ res.in.tokens = <<audio_start_token_id, audio_token_id, audio_token_id>>
    /\ res.in.audio_feature_lengths = Some(<<9>>)
    /\ res.out.blocks = << <<(<<0, 0, 0>>)>>, <<(<<1, 1, 1>>), <<2, 2, 2>>>> >>

\* the indices of one axis of a block never go down, in token order
NonDecreasing(b, axis) == \A c \in 1..(Len(b) - 1) : b[c][axis] <= b[c + 1][axis]
\* every token of the block has the same index on the three axes
Flat(b) == \A c \in 1..Len(b) : b[c][1] = b[c][2] /\ b[c][2] = b[c][3]

\* C20 as stated: within every block the index sequence of each of the three
\* axes, in token order, is non-decreasing.
C20_EveryAxisNonDecreasing ==
    Resolving /\ res.out.err = "" =>
        \A k \in 1..Len(res.out.blocks) : \A axis \in 1..3 :
            NonDecreasing(res.out.blocks[k], axis)

\* C20, amended: within every block the time index, in token order, is
\* non-decreasing. The height and width indices of an image or video block
\* follow the row-major order of the grid: the width index starts again at
\* every row and the height index at every frame, so they go down there.
C20_TimeAxisNonDecreasing ==
    Resolving /\ res.out.err = "" =>
        \A k \in 1..Len(res.out.blocks) : NonDecreasing(res.out.blocks[k], 1)

\* a vision block of several frames: its time index goes up along the block
C20_Witness ==
    /\ Resolving /\ res.out.err = ""
    /\ \E k \in 1..Len(res.out.blocks) :
          LET b == res.out.blocks[k]
          IN Len(b) >= 2 /\ ~Flat(b) /\ b[1][1] < b[Len(b)][1] /\ NonDecreasing(b, 1)

\* the call with the image grid metadata replaced
WithImageGrid(image) == GetInputPositionsTensor([res.in EXCEPT !.image_grid_thw = image])

\* C21: grid metadata is consumed per modality: the k-th video run uses the
\* k-th entry of the video grid metadata and no entry of the image grid
\* metadata. So on a stream without image runs whose video runs each have
\* their video grid entry, what a resolver returns is the same whatever image
\* grid metadata is supplied.
C21_VideoRunsUseVideoGrid ==
    /\ Resolving /\ res.out.err = ""
    /\ ImageRuns = 0 /\ VideoRuns >= 1
    /\ res.in.video_grid_thw.some /\ VideoRuns = Len(res.in.video_grid_thw.v)
    => \A image \in ImageGrids : WithImageGrid(image) = res.out

\* ------------------------------------------------------------ decode: claims

\* the delta the request keeps is the one of its whole prompt
DeltaOfPrompt == dec.delta = dec.top + 1 - dec.n
Single(x) == <<<<x>>, <<x>>, <<x>>>>

\* C13: when a prompt of N tokens was resolved with largest index M and delta
\* M + 1 - N, decode step k gets three identical one-element lists holding
\* M + 1 + k: above every prompt position, and one more than the step before.
C13_DecodeContinues ==
    [][dec'.phase = "decode" /\ dec'.k = dec.k + 1 /\ DeltaOfPrompt =>
          /\ dec'.next = Single(dec.top + 1 + dec.k)
          /\ dec'.next[1][1] > dec.top
          /\ dec.k > 0 => dec'.next = Single(dec.next[1][1] + 1)]_vars

\* the last decode step after a prompt with an image, whose delta is not 0
C13_Witness ==
    /\ dec.phase = "decode" /\ dec.k = MaxDecode /\ DeltaOfPrompt /\ dec.delta < 0
    /\ dec.next = Single(dec.top + MaxDecode)

\* ------------------------------------------------------ placement: claims

\* C17: over any sequence or interleaving of forward calls on one shared
\* instance the placement (device, dtype) of the cache changes at most once,
\* on first use, and never again.
C17_PlacementChangesOnce ==
    [][Placement(cache') # Placement(cache) => cache.moves = 0]_vars

\* the states at the head of each pass of the loop of
\* _omni_get_input_positions_tensor, the state it ends in last
RECURSIVE OmniPasses(_, _)
OmniPasses(in, s) ==
    IF s.idx >= Len(in.tokens) \/ s.err # "" THEN <<s>>
    ELSE <<s>> \o OmniPasses(in, OmniStep(in, s))
OmniScan ==
    OmniPasses(res.in, [idx |-> 0, blocks |-> <<>>, audio_idx |-> 0, video_idx |-> 0,
                        image_idx |-> 0, err |-> ""])
OmniResolving == res.op # "none" /\ res.in.model_type = "omni"
\* pass i ran to its end without raising
Completed(i) == OmniScan[i + 1].err = ""
Stalled(i) == Completed(i) /\ OmniScan[i + 1].idx = OmniScan[i].idx

\* C30 as stated: every pass of the omni resolver's loop that runs to its end
\* leaves the stream index idx larger than it found it, for every audio
\* feature length and every grid, so the loop takes at most len(input_tokens)
\* passes.
C30_EveryPassAdvances ==
    OmniResolving =>
        /\ \A i \in 1..(Len(OmniScan) - 1) : Completed(i) => OmniScan[i + 1].idx > OmniScan[i].idx
        /\ Len(OmniScan) - 1 <= Len(res.in.tokens)

\* C30 as the code has it: the loop always ends, and no pass moves idx back.
\* A pass leaves idx where it was when the item it handles expands to no
\* token (an audio item of feature length at most 2, a grid with fewer cells
\* than spatial_merge_size squared); the pass after it raises RuntimeError on
\* the empty block of positions, so the call fails after at most
\* len(input_tokens) + 1 passes. Without such an item every pass that runs to
\* its end advances idx and there are at most len(input_tokens) passes.
C30_ScanEnds ==
    OmniResolving =>
        /\ \A i \in 1..(Len(OmniScan) - 1) :
              /\ Completed(i) => OmniScan[i + 1].idx >= OmniScan[i].idx
              /\ Stalled(i) =>
                    /\ i + 1 = Len(OmniScan) - 1
                    /\ OmniScan[i + 2].err = "RuntimeError"
                    /\ res.out.err = "RuntimeError"
        /\ Len(OmniScan) - 1 <= Len(res.in.tokens) + 1
        /\ (\A i \in 1..(Len(OmniScan) - 1) : ~Stalled(i))
              => Len(OmniScan) - 1 <= Len(res.in.tokens)
C30_Witness ==
    /\ OmniResolving
    /\ Len(OmniScan) = Len(res.in.tokens) + 2
    /\ \E i \in 2..(Len(OmniScan) - 1) : Stalled(i) /\ ~Stalled(i - 1)
    /\ res.out.err = "RuntimeError"

\* ------------------------------------------------------- static helpers: claims

Updating == fcall.op = "omni_get_updates_use_audio_in_video"
Count(q, tok) == Cardinality({i \in 1..Len(q) : q[i] = tok})
\* the number of time indices of a chunk and the chunks of a video: frame i
\* has time index i * video_second_per_grid_t * tokens_per_second and lies in
\* the chunk of number that index divided by the time indices per chunk
PerChunk == fcall.in.thinker_config.tokens_per_second * fcall.in.thinker_config.seconds_per_chunk
TimeOf(i) ==
    i * fcall.in.video_second_per_grid_t * fcall.in.thinker_config.tokens_per_second
NumChunks == (TimeOf(fcall.in.video_grid_thw[1] - 1) \div PerChunk) + 1
FramesIn(c) ==
    Cardinality({i \in 0..(fcall.in.video_grid_thw[1] - 1) : TimeOf(i) \div PerChunk = c - 1})
\* the video tokens of chunk c and the audio tokens that follow them
VideoOf(c) ==
    (FramesIn(c) * fcall.in.video_grid_thw[2] * fcall.in.video_grid_thw[3])
        \div (fcall.in.thinker_config.spatial_merge_size
                * fcall.in.thinker_config.spatial_merge_size)
AudioOf(c) == Min(PerChunk, Max2(fcall.in.audio_len - (c - 1) * PerChunk, 0))
\* some audio token lies between two video tokens
Interleaved ==
    \E i, j, l \in 1..Len(fcall.out) :
        /\ i < j /\ j < l
        /\ fcall.out[i] = video_token_id /\ fcall.out[j] = audio_token_id
        /\ fcall.out[l] = video_token_id

\* C23: omni_get_updates_use_audio_in_video returns the audio-start token,
\* then for each temporal chunk in increasing time order that chunk's video
\* tokens followed by the audio tokens still to be placed, at most
\* int(tokens_per_second * seconds_per_chunk) of them, then the audio tokens
\* left over, then the audio-end token. The sequence holds exactly audio_len
\* audio tokens and t*h*w / spatial_merge_size^2 video tokens, and when video
\* tokens come in two chunks with audio to place the two kinds are interleaved.
C23_UpdatesInterleaved ==
    Updating =>
        LET g == fcall.in.video_grid_thw
            m == fcall.in.thinker_config.spatial_merge_size
            chunks == [c \in 1..NumChunks |->
                          Rep(video_token_id, VideoOf(c)) \o Rep(audio_token_id, AudioOf(c))]
            body == Cat(chunks)
        IN /\ fcall.out = <<audio_start_token_id>> \o body
                            \o Rep(audio_token_id, fcall.in.audio_len - Count(body, audio_token_id))
                            \o <<audio_end_token_id>>
           /\ Count(fcall.out, audio_token_id) = fcall.in.audio_len
           /\ Count(fcall.out, video_token_id) = (g[1] * g[2] * g[3]) \div (m * m)
           /\ Len(fcall.out) = 2 + fcall.in.audio_len + (g[1] * g[2] * g[3]) \div (m * m)
           /\ (\E c \in 2..NumChunks : VideoOf(c) > 0) /\ fcall.in.audio_len > 0
                  => Interleaved

\* three frames in two chunks and more audio than the chunks take: video,
\* audio, video, audio, and the audio left over
C23_Witness ==
    /\ Updating
    /\ fcall.in.video_grid_thw = <<3, 2, 2>> /\ fcall.in.audio_len = 5
    /\ fcall.in.video_second_per_grid_t = 1
    /\ fcall.in.thinker_config.seconds_per_chunk = 2
    /\ fcall.out = <<audio_start_token_id, video_token_id, video_token_id, audio_token_id,
                     audio_token_id, video_token_id, audio_token_id, audio_token_id,
                     audio_token_id, audio_end_token_id>>

\* C28: _valid_deep_gemm_shape(M, N, K) is true exactly when each of M, N and
\* K is a multiple of the DeepGemm block alignment.
C28_ValidIffAllAligned ==
    fcall.op = "_valid_deep_gemm_shape" =>
        (fcall.out <=> /\ fcall.in.M % fcall.in.align = 0
                       /\ fcall.in.N % fcall.in.align = 0
                       /\ fcall.in.K % fcall.in.align = 0)

NextPositionsWritten == fcall.op = "get_next_input_positions_tensor"
\* the window [out_offset, out_offset + num_new_tokens) lies in the array
WindowInArray ==
    /\ 0 <= fcall.in.out_offset
    /\ fcall.in.out_offset + fcall.in.num_new_tokens <= Len(fcall.in.out[1])
\* after the call, the window of every row holds the list
\* get_next_input_positions returns for that axis
WindowHoldsNextPositions ==
    LET lists == GetNextInputPositions(fcall.in.mrope_position_delta, fcall.in.context_len,
                                       fcall.in.context_len + fcall.in.num_new_tokens)
    IN \A r \in 1..3 : \A i \in 1..fcall.in.num_new_tokens :
          /\ fcall.in.out_offset + i \in 1..Len(fcall.out.out[r])
          /\ fcall.out.out[r][fcall.in.out_offset + i] = lists[r][i]
OtherColumnsUnchanged ==
    \A r \in 1..3 : \A c \in 1..Len(fcall.in.out[r]) :
        (c <= fcall.in.out_offset \/ c > fcall.in.out_offset + fcall.in.num_new_tokens)
            => fcall.out.out[r][c] = fcall.in.out[r][c]

====
